---- MODULE Spec2Model ----
(***************************************************************************)
(* A model of the formation editor of tactical-tangle: the army of one     *)
(* player (BattleConfigService + ArmyBuilder), the unit canvas that drags, *)
(* resizes, duplicates and undoes (UnitCanvas), and the unit constants.    *)
(*                                                                         *)
(* JavaScript values are encoded as follows.                               *)
(*   - null / an absent gesture is the record Null;                        *)
(*   - a unit's general is <<>> (null) or <<characterId>>;                 *)
(*   - the number NaN is the integer NaN (-1) and a cost that               *)
(*     JSON.parse(JSON.stringify(..)) turned into null is JsonNull (-2):   *)
(*     real costs and point totals are never negative;                     *)
(*   - a unit name is [base, n, copies]: "<type name> <n>" followed by     *)
(*     copies times " (Copy)", or a user-typed name (base = "custom").     *)
(***************************************************************************)
EXTENDS Integers, Sequences, FiniteSets, TLC

VARIABLES
    units,          \* army.units of the player's army (battleConfig.config.armies[p].units)
    usedPoints,     \* army.usedPoints
    nextId,         \* ids handed out so far (generateId / Date.now()+random are fresh)
    history,        \* UnitCanvas.history
    historyIndex,   \* UnitCanvas.historyIndex (0-based as in the code, -1 when empty)
    restored,       \* which snapshot's objects the army currently shares (restoreState pushes them)
    selectedUnit,   \* UnitCanvas.selectedUnit (0 = null)
    dragState,      \* UnitCanvas.dragState
    resizeState,    \* UnitCanvas.resizeState
    elems,          \* armyBuilder.unitElements: id -> style of the live wrapper element
    defaultSpawnSettings, \* UnitCanvas.defaultSpawnSettings
    alerts,         \* number of alert() boxes shown by the last handler (0 or 1)
    op,             \* observer: the handler that ran last and what it did
    track,          \* observer: the army before/after the last snapshotting command
    log,            \* observer: the snapshots pushed since undo/redo last restored one
    stored,         \* localStorage['battleConfig']: the army as save() last wrote it (Null: no item)
    panel,          \* the character panel: shown or not, its unit, and the buttons it renders
    otherArmy       \* character ids referenced by the units of the other player's army

vars      == <<units, usedPoints, nextId, history, historyIndex, restored, selectedUnit,
               dragState, resizeState, elems, defaultSpawnSettings, alerts, op, track, log,
               stored, panel, otherArmy>>

----------------------------------------------------------------------------
(* Bounds of the model (not program constants).                            *)

\* size of the battlefield element (canvas.offsetWidth / offsetHeight), set by the page
CanvasWidth == 400
CanvasHeight == 300

----------------------------------------------------------------------------
(* Program constants: js/constants/units.js                                *)

UNIT_TYPES ==
    [light   |-> [cost |-> 1, minSize |-> 20, maxSize |-> 400, defaultSize |-> 80,
                  defaultFormation |-> [width |-> 16, depth |-> 5]],
     hoplite |-> [cost |-> 2, minSize |-> 40, maxSize |-> 800, defaultSize |-> 120,
                  defaultFormation |-> [width |-> 10, depth |-> 12]],
     cavalry |-> [cost |-> 4, minSize |-> 20, maxSize |-> 200, defaultSize |-> 60,
                  defaultFormation |-> [width |-> 10, depth |-> 6]]]

Types == DOMAIN UNIT_TYPES

ARMY_LIMITS == [maxUnits |-> 40, defaultMaxPoints |-> 1000, minPoints |-> 200, maxPoints |-> 5000]

VISUAL_SCALE == [soldierToPixels |-> 10, minUnitWidth |-> 40, minUnitHeight |-> 40,
                 maxUnitWidth |-> 300, maxUnitHeight |-> 300]

\* a history one snapshot shorter: a variant the retention property excludes
ShorterHistory == 50 - 1

maxHistorySize == 50

Null == [null |-> TRUE]
NaN == 0 - 1
JsonNull == 0 - 2

Max(a, b) == IF a >= b THEN a ELSE b
Min(a, b) == IF a <= b THEN a ELSE b

\* Math.ceil(a / b) for integers a >= 0, b > 0
CeilDiv(a, b) == (a + b - 1) \div b

\* Math.round(px / 10) for an integer px >= 0 (round half up)
RoundTenth(px) == (px + 5) \div 10

\* JavaScript a + b on numbers, NaN and null: NaN absorbs, null counts as 0
JsAdd(a, b) ==
    IF a = NaN \/ b = NaN THEN NaN
    ELSE (IF a = JsonNull THEN 0 ELSE a) + (IF b = JsonNull THEN 0 ELSE b)

\* unitType.cost * soldierCount
calculateUnitCost(type, soldierCount) == UNIT_TYPES[type].cost * soldierCount

\* depth = ceil(sqrt(n / (W/D))) is the least d with d*d*W >= n*D; width = ceil(n / depth)
calculateFormationFromSoldiers(soldierCount, type) ==
    LET W == UNIT_TYPES[type].defaultFormation.width
        D == UNIT_TYPES[type].defaultFormation.depth
        depth == CHOOSE d \in 1..(soldierCount + 1) :
                    /\ d * d * W >= soldierCount * D
                    /\ \A e \in 1..(d - 1) : e * e * W < soldierCount * D
    IN  [width |-> CeilDiv(soldierCount, depth), depth |-> depth]

getUnitVisualSize(formation) ==
    [width  |-> Max(VISUAL_SCALE.minUnitWidth,
                    Min(VISUAL_SCALE.maxUnitWidth, formation.width * VISUAL_SCALE.soldierToPixels)),
     height |-> Max(VISUAL_SCALE.minUnitHeight,
                    Min(VISUAL_SCALE.maxUnitHeight, formation.depth * VISUAL_SCALE.soldierToPixels))]

\* validateUnitSize without its upper limit: a variant the size property excludes
validateUnitSizeNoMax(type, soldierCount) ==
    IF type \notin Types THEN [valid |-> FALSE, error |-> "Unknown unit type"]
    ELSE IF soldierCount < UNIT_TYPES[type].minSize THEN [valid |-> FALSE, error |-> "must have at least"]
    ELSE [valid |-> TRUE, error |-> ""]

validateUnitSize(type, soldierCount) ==
    IF type \notin Types THEN [valid |-> FALSE, error |-> "Unknown unit type"]
    ELSE IF soldierCount < UNIT_TYPES[type].minSize THEN [valid |-> FALSE, error |-> "must have at least"]
    ELSE IF soldierCount > UNIT_TYPES[type].maxSize THEN [valid |-> FALSE, error |-> "cannot exceed"]
    ELSE [valid |-> TRUE, error |-> ""]

----------------------------------------------------------------------------
(* The army: BattleConfigService (add/update/remove, points) and            *)
(* ArmyBuilder (createUnit, updateUnit, removeUnit, resizeUnit, placement). *)

\* Array.prototype.findIndex(u => u.id === id), 1-based; 0 when absent
FindIndex(us, id) ==
    IF \E i \in 1..Len(us) : us[i].id = id
    THEN CHOOSE i \in 1..Len(us) : us[i].id = id /\ \A j \in 1..(i - 1) : us[j].id # id
    ELSE 0

HasUnit(us, id) == FindIndex(us, id) # 0

\* Array.prototype.find(u => u.id === id), for an id that is present
FindUnit(us, id) == us[FindIndex(us, id)]

UnitIds(us) == {us[i].id : i \in 1..Len(us)}

\* { ...unit, ...updates }
Spread(unit, updates) ==
    [f \in DOMAIN unit \cup DOMAIN updates |-> IF f \in DOMAIN updates THEN updates[f] ELSE unit[f]]

RECURSIVE SumCosts(_, _)
SumCosts(us, total) ==
    IF us = <<>> THEN total ELSE SumCosts(Tail(us), JsAdd(total, Head(us).cost))

\* army.units.reduce((total, unit) => total + unit.cost, 0)
updateArmyPoints(us) == SumCosts(us, 0)

\* A result of an army command: the army after it, and what it returned
Result(ok, err, us, pts) ==
    [success |-> ok, error |-> err, units |-> us, usedPoints |-> pts, thrown |-> FALSE]

\* A command that threw instead of returning: nothing after the throw has run
Thrown(err, us, pts) ==
    [success |-> FALSE, error |-> err, units |-> us, usedPoints |-> pts, thrown |-> TRUE]

\* BattleConfigService.save: JSON.stringify(config) into localStorage; the army's part of it
\* (stringify writes null for NaN)
save(us, pts) ==
    [units |-> [i \in 1..Len(us) |-> [us[i] EXCEPT !.cost = IF @ = NaN THEN JsonNull ELSE @]],
     usedPoints |-> IF pts = NaN THEN JsonNull ELSE pts]

\* BattleConfigService.addUnit: normalise the unit, push, recompute the points
ConfigAddUnit(us, unit) ==
    LET fullUnit == [unit EXCEPT !.hierarchy = IF @ = 0 THEN 999 ELSE @]
        after == Append(us, fullUnit)
    IN  Result(TRUE, "", after, updateArmyPoints(after))

\* BattleConfigService.updateUnit, for an id that is present
ConfigUpdateUnit(us, id, updates) ==
    LET i == FindIndex(us, id)
        after == [us EXCEPT ![i] = Spread(us[i], updates)]
    IN  Result(TRUE, "", after, updateArmyPoints(after))

RemoveAt(us, i) == SubSeq(us, 1, i - 1) \o SubSeq(us, i + 1, Len(us))

\* removeUnit without its try/catch: a variant the absent-id property excludes
removeUnitUncaught(us, pts, id) ==
    IF ~HasUnit(us, id) THEN Thrown("Unit not found", us, pts)
    ELSE LET after == RemoveAt(us, FindIndex(us, id))
         IN  Result(TRUE, "", after, updateArmyPoints(after))

\* ArmyBuilder.removeUnit over BattleConfigService.removeUnit (which throws when absent)
removeUnit(us, pts, id) ==
    IF ~HasUnit(us, id) THEN Result(FALSE, "Unit not found", us, pts)
    ELSE LET after == RemoveAt(us, FindIndex(us, id))
         IN  Result(TRUE, "", after, updateArmyPoints(after))

\* updateUnit writing the fields before it validates the soldier count: a variant the
\* refused-update property excludes
updateUnitUnvalidated(us, pts, id, updates) ==
    IF ~HasUnit(us, id) THEN Result(FALSE, "Unit not found", us, pts)
    ELSE LET unit == FindUnit(us, id)
             r == ConfigUpdateUnit(us, id, updates)
         IN  IF "soldierCount" \in DOMAIN updates
                  /\ ~validateUnitSize(unit.type, updates.soldierCount).valid
             THEN Result(FALSE, validateUnitSize(unit.type, updates.soldierCount).error,
                         r.units, r.usedPoints)
             ELSE r

\* ArmyBuilder.updateUnit
updateUnit(us, pts, id, updates) ==
    IF ~HasUnit(us, id) THEN Result(FALSE, "Unit not found", us, pts)
    ELSE LET unit == FindUnit(us, id) IN
         IF "soldierCount" \in DOMAIN updates
         THEN LET validation == validateUnitSize(unit.type, updates.soldierCount) IN
              IF ~validation.valid THEN Result(FALSE, validation.error, us, pts)
              ELSE LET withCost == Spread(updates,
                                     [cost |-> calculateUnitCost(unit.type, updates.soldierCount)])
                       full == IF "formation" \in DOMAIN updates THEN withCost
                               ELSE Spread(withCost,
                                      [formation |-> calculateFormationFromSoldiers(
                                                         updates.soldierCount, unit.type)])
                   IN  ConfigUpdateUnit(us, id, full)
         ELSE ConfigUpdateUnit(us, id, updates)

\* resizeUnit writing the new size without validating it: a variant the
\* refused-resize property excludes
resizeUnitUnvalidated(us, pts, id, newWidth, newHeight) ==
    IF ~HasUnit(us, id) THEN Result(FALSE, "Unit not found", us, pts)
    ELSE LET unit == FindUnit(us, id)
             newFormationWidth == Max(1, RoundTenth(newWidth))
             newFormationDepth == Max(1, RoundTenth(newHeight))
             newSoldierCount == newFormationWidth * newFormationDepth
         IN  ConfigUpdateUnit(us, id,
                    [soldierCount |-> newSoldierCount,
                     cost |-> calculateUnitCost(unit.type, newSoldierCount),
                     formation |-> [width |-> newFormationWidth, depth |-> newFormationDepth]])

\* ArmyBuilder.resizeUnit
resizeUnit(us, pts, id, newWidth, newHeight) ==
    IF ~HasUnit(us, id) THEN Result(FALSE, "Unit not found", us, pts)
    ELSE LET unit == FindUnit(us, id)
             newFormationWidth == Max(1, RoundTenth(newWidth))
             newFormationDepth == Max(1, RoundTenth(newHeight))
             newSoldierCount == newFormationWidth * newFormationDepth
             validation == validateUnitSize(unit.type, newSoldierCount)
         IN  IF ~validation.valid THEN Result(FALSE, validation.error, us, pts)
             ELSE updateUnit(us, pts, id,
                    [soldierCount |-> newSoldierCount,
                     formation |-> [width |-> newFormationWidth, depth |-> newFormationDepth]])

\* ArmyBuilder.getDefaultPosition
getDefaultPosition(us) ==
    LET unitCount == Len(us)
        col == unitCount % 5
        row == unitCount \div 5
    IN  [x |-> 50 + (col * 150), y |-> 50 + (row * 150)]

\* checkCollision letting footprints share an edge: a variant the placement property excludes
checkCollisionOpen(unit1, unit2) ==
    LET size1 == getUnitVisualSize(unit1.formation)
        size2 == getUnitVisualSize(unit2.formation)
    IN  ~ \/ unit1.position.x + size1.width <= unit2.position.x
          \/ unit2.position.x + size2.width <= unit1.position.x
          \/ unit1.position.y + size1.height <= unit2.position.y
          \/ unit2.position.y + size2.height <= unit1.position.y

\* ArmyBuilder.checkCollision
checkCollision(unit1, unit2) ==
    LET size1 == getUnitVisualSize(unit1.formation)
        size2 == getUnitVisualSize(unit2.formation)
    IN  ~ \/ unit1.position.x + size1.width < unit2.position.x
          \/ unit2.position.x + size2.width < unit1.position.x
          \/ unit1.position.y + size1.height < unit2.position.y
          \/ unit2.position.y + size2.height < unit1.position.y

\* ArmyBuilder.validatePlacement
validatePlacement(us, unitId, newPosition) ==
    IF ~HasUnit(us, unitId) THEN [valid |-> FALSE, error |-> "Unit not found"]
    ELSE LET testUnit == [FindUnit(us, unitId) EXCEPT !.position = newPosition] IN
         IF \E i \in 1..Len(us) : us[i].id # unitId /\ checkCollision(testUnit, us[i])
         THEN [valid |-> FALSE, error |-> "Units cannot overlap"]
         ELSE [valid |-> TRUE, error |-> ""]

\* The unit object priced for the type's default size whatever the template says:
\* a variant the spawn-template property excludes
NewUnitDefaultCost(us, id, type, spawn) ==
    LET custom == type \in DOMAIN spawn
        soldierCount == IF custom THEN spawn[type].soldierCount ELSE UNIT_TYPES[type].defaultSize
        formation == IF custom THEN spawn[type].formation ELSE UNIT_TYPES[type].defaultFormation
    IN  [id |-> id, type |-> type,
         name |-> [base |-> type, n |-> Len(us) + 1, copies |-> 0],
         soldierCount |-> soldierCount, formation |-> formation,
         position |-> getDefaultPosition(us),
         cost |-> calculateUnitCost(type, UNIT_TYPES[type].defaultSize),
         general |-> <<>>, soldiers |-> <<>>, hierarchy |-> Len(us) + 1]

\* The unit ArmyBuilder.createUnit builds (type known, army below the limit)
NewUnit(us, id, type, spawn) ==
    LET custom == type \in DOMAIN spawn
        soldierCount == IF custom THEN spawn[type].soldierCount ELSE UNIT_TYPES[type].defaultSize
        formation == IF custom THEN spawn[type].formation ELSE UNIT_TYPES[type].defaultFormation
    IN  [id |-> id, type |-> type,
         name |-> [base |-> type, n |-> Len(us) + 1, copies |-> 0],
         soldierCount |-> soldierCount, formation |-> formation,
         position |-> getDefaultPosition(us),
         cost |-> calculateUnitCost(type, soldierCount),
         general |-> <<>>, soldiers |-> <<>>, hierarchy |-> Len(us) + 1]

\* createUnit letting a unit in at the limit: a variant the unit-limit property excludes
createUnitPastLimit(us, pts, id, type, spawn) ==
    IF Len(us) > ARMY_LIMITS.maxUnits THEN Result(FALSE, "Cannot exceed units per army", us, pts)
    ELSE ConfigAddUnit(us, NewUnit(us, id, type, spawn))

\* ArmyBuilder.createUnit: throws for a type UNIT_TYPES does not have
createUnit(us, pts, id, type, spawn) ==
    IF type \notin Types THEN Thrown("Unknown unit type", us, pts)
    ELSE IF Len(us) >= ARMY_LIMITS.maxUnits THEN Result(FALSE, "Cannot exceed units per army", us, pts)
    ELSE ConfigAddUnit(us, NewUnit(us, id, type, spawn))

----------------------------------------------------------------------------
(* History: UnitCanvas.saveHistory / undo / redo / restoreState.            *)

\* JSON.parse(JSON.stringify(units)): a deep copy in which a NaN cost becomes null
JsonClone(us) == [i \in 1..Len(us) |-> [us[i] EXCEPT !.cost = IF @ = NaN THEN JsonNull ELSE @]]

NoShare == [at |-> 0, obj |-> {}, arr |-> {}]

\* The state saveHistory() clones: army.totalPoints is undefined, so usedPoints is taken
Snapshot(us, pts) == [units |-> JsonClone(us), totalPoints |-> pts]

\* saveHistory() appending without cutting the snapshots after the index: a variant
\* the redo-branch property excludes
saveHistoryKeepingRedo(h, idx, rst, us, pts) ==
    LET pushed == Append(h, Snapshot(us, pts))
        over == Len(pushed) > maxHistorySize
    IN  [history |-> IF over THEN Tail(pushed) ELSE pushed,
         historyIndex |-> IF over THEN idx ELSE idx + 1,
         restored |-> rst]

\* The history after saveHistory(): h is history, idx is historyIndex, rst is restored
saveHistory(h, idx, rst, us, pts) ==
    LET state == Snapshot(us, pts)
        kept == SubSeq(h, 1, idx + 1)
        pushed == Append(kept, state)
        over == Len(pushed) > maxHistorySize
        r1 == IF rst.at > Len(kept) THEN NoShare ELSE rst
    IN  [history |-> IF over THEN Tail(pushed) ELSE pushed,
         historyIndex |-> IF over THEN idx ELSE idx + 1,
         restored |-> IF ~over THEN r1
                      ELSE IF r1.at <= 1 THEN NoShare ELSE [r1 EXCEPT !.at = @ - 1]]

----------------------------------------------------------------------------
(* The wrapper elements of the canvas and the gestures that hold one.       *)

EmptyFn == [x \in {} |-> x]

\* createUnitElement: the wrapper's inline style
RenderStyle(unit) ==
    LET size == getUnitVisualSize(unit.formation)
    IN  [left |-> unit.position.x, top |-> unit.position.y,
         width |-> size.width, height |-> size.height, outline |-> ""]

\* renderAllUnits / the forEach of restoreState: one fresh wrapper per unit
RenderAll(us) == [id \in UnitIds(us) |-> RenderStyle(FindUnit(us, id))]

\* UnitCanvas.updateUnitElement
updateUnitElement(els, us, id) ==
    IF ~HasUnit(us, id) \/ id \notin DOMAIN els THEN els
    ELSE LET r == RenderStyle(FindUnit(us, id))
         IN  [els EXCEPT ![id] = [@ EXCEPT !.left = r.left, !.top = r.top,
                                           !.width = r.width, !.height = r.height]]

\* The style of the element a gesture holds: the live wrapper, or the wrapper
\* that restoreState took out of the document (canvas.innerHTML = '')
GStyle(g, els) == IF g.detached THEN g.style ELSE els[g.unitId]

\* element.offsetWidth / offsetHeight: 0 for an element that is not in the document
OffsetWidth(g, els) == IF g.detached THEN 0 ELSE els[g.unitId].width
OffsetHeight(g, els) == IF g.detached THEN 0 ELSE els[g.unitId].height

\* Writing the style of a gesture's element
GestureWith(g, st) == IF g.detached THEN [g EXCEPT !.style = st] ELSE g
ElemsWith(g, els, st) == IF g.detached THEN els ELSE [els EXCEPT ![g.unitId] = st]

\* A gesture whose wrapper restoreState removed keeps the removed wrapper
Detach(g, els) ==
    IF g = Null THEN Null
    ELSE IF g.detached THEN g
    ELSE [g EXCEPT !.detached = TRUE, !.style = els[g.unitId]]

\* Objects that a successful updateUnit / removal replaced are no longer shared
Unshare(rst, ids, soldiersToo) ==
    [rst EXCEPT !.obj = @ \ ids, !.arr = IF soldiersToo THEN @ \ ids ELSE @]

\* The character panel as initCharacterPanel builds it: hidden, for no unit, no buttons
NoPanel == [shown |-> FALSE, unitId |-> 0, general |-> <<>>, soldiers |-> {},
            listed |-> {}, generalBtn |-> FALSE]

NoTrack == [phase |-> "none"]
Army(us, pts) == [units |-> us, usedPoints |-> pts]

\* The history left alone, and the history after saveHistory() in the current state
Unsaved == [history |-> history, historyIndex |-> historyIndex, restored |-> restored]
\* saveHistory() that pushes nothing: a variant the gesture property excludes
SkippedSave == [history |-> history, historyIndex |-> historyIndex, restored |-> restored]

Saved == saveHistory(history, historyIndex, restored, units, usedPoints)

\* The snapshot saveHistory() pushes in the current state
Pushed == Snapshot(units, usedPoints)

----------------------------------------------------------------------------
(* Initial state: a fresh configuration (createNew) and a new UnitCanvas.   *)

Init ==
    /\ units = <<>>
    /\ usedPoints = 0
    /\ nextId = 0
    /\ history = <<>>
    /\ historyIndex = 0 - 1
    /\ restored = NoShare
    /\ selectedUnit = 0
    /\ dragState = Null
    /\ resizeState = Null
    /\ elems = EmptyFn
    /\ defaultSpawnSettings = EmptyFn
    /\ alerts = 0
    /\ op = [name |-> "init", ok |-> TRUE]
    /\ track = NoTrack
    /\ log = <<>>
    /\ stored = Null
    /\ panel = NoPanel
    /\ otherArmy = {}

----------------------------------------------------------------------------
(* Army commands of the page.                                               *)

\* this.unitCanvas.defaultSpawnSettings as createUnit reads it: armyBuilder.unitCanvas
\* is null at construction and is set to the canvas by the page once the canvas exists
unitCanvasDefaultSpawnSettings == defaultSpawnSettings

\* The page adds a unit: ArmyBuilder.createUnit(type), then UnitCanvas.renderUnit
CreateUnit(type) ==
    /\ LET r == createUnit(units, usedPoints, nextId + 1, type, unitCanvasDefaultSpawnSettings) IN
        /\ units' = r.units
        /\ usedPoints' = r.usedPoints
        /\ stored' = IF r.success THEN save(r.units, r.usedPoints) ELSE stored
        /\ nextId' = IF r.success THEN nextId + 1 ELSE nextId
        /\ elems' = IF r.success
                    THEN [id \in DOMAIN elems \cup {nextId + 1} |->
                            IF id = nextId + 1 THEN RenderStyle(r.units[Len(r.units)])
                            ELSE elems[id]]
                    ELSE elems
        /\ restored' = restored
        /\ op' = [name |-> "createUnit", ok |-> r.success, error |-> r.error,
                  thrown |-> r.thrown, type |-> type]
    /\ alerts' = 0
    /\ track' = NoTrack
    /\ UNCHANGED <<history, historyIndex, selectedUnit, dragState, resizeState,
                   defaultSpawnSettings>>
    /\ UNCHANGED log
    /\ UNCHANGED <<panel, otherArmy>>

\* The page sets a soldier count: ArmyBuilder.updateUnit(id, {soldierCount}), then updateUnitElement
UpdateSoldierCount(id, n) ==
    /\ LET r == updateUnit(units, usedPoints, id, [soldierCount |-> n]) IN
        /\ units' = r.units
        /\ usedPoints' = r.usedPoints
        /\ stored' = IF r.success THEN save(r.units, r.usedPoints) ELSE stored
        /\ elems' = updateUnitElement(elems, r.units, id)
        /\ restored' = IF r.success THEN Unshare(restored, {id}, FALSE) ELSE restored
        /\ op' = [name |-> "updateUnit", ok |-> r.success]
    /\ alerts' = 0
    /\ track' = NoTrack
    /\ UNCHANGED <<nextId, history, historyIndex, selectedUnit, dragState, resizeState,
                   defaultSpawnSettings>>
    /\ UNCHANGED log
    /\ UNCHANGED <<panel, otherArmy>>

\* ArmyBuilder.updateUnit(id, updates) called by itself
UpdateUnit(id, updates) ==
    /\ LET r == updateUnit(units, usedPoints, id, updates) IN
        /\ units' = r.units
        /\ usedPoints' = r.usedPoints
        /\ stored' = IF r.success THEN save(r.units, r.usedPoints) ELSE stored
        /\ restored' = IF r.success
                       THEN Unshare(restored, {id}, "soldiers" \in DOMAIN updates)
                       ELSE restored
        /\ op' = [name |-> "callUpdateUnit", ok |-> r.success, error |-> r.error,
                  thrown |-> r.thrown, id |-> id, updates |-> updates]
    /\ alerts' = 0
    /\ track' = NoTrack
    /\ UNCHANGED <<nextId, history, historyIndex, selectedUnit, dragState, resizeState,
                   elems, defaultSpawnSettings>>
    /\ UNCHANGED log
    /\ UNCHANGED <<panel, otherArmy>>

\* ArmyBuilder.removeUnit(id) called by itself: the unit's element goes with the unit
RemoveUnit(id) ==
    /\ LET r == removeUnit(units, usedPoints, id) IN
        /\ units' = r.units
        /\ usedPoints' = r.usedPoints
        /\ stored' = IF r.success THEN save(r.units, r.usedPoints) ELSE stored
        /\ elems' = IF r.success THEN [e \in DOMAIN elems \ {id} |-> elems[e]] ELSE elems
        /\ restored' = IF r.success THEN Unshare(restored, {id}, TRUE) ELSE restored
        /\ op' = [name |-> "callRemoveUnit", ok |-> r.success, error |-> r.error,
                  thrown |-> r.thrown, id |-> id]
    /\ alerts' = 0
    /\ track' = NoTrack
    /\ UNCHANGED <<nextId, history, historyIndex, selectedUnit, dragState, resizeState,
                   defaultSpawnSettings>>
    /\ UNCHANGED log
    /\ UNCHANGED <<panel, otherArmy>>

----------------------------------------------------------------------------
(* Pointer gestures: mousedown / mousemove / mouseup of initEventListeners. *)

\* mousedown on the body of the wrapper of unit id: startDrag
StartDrag(id) ==
    /\ id \in DOMAIN elems
    /\ LET h == IF dragState = Null THEN Saved ELSE Unsaved IN
        /\ history' = h.history
        /\ historyIndex' = h.historyIndex
        /\ restored' = h.restored
    /\ selectedUnit' = id
    /\ dragState' = [unitId |-> id, detached |-> FALSE, style |-> Null,
                     originalPosition |-> [x |-> elems[id].left, y |-> elems[id].top]]
    /\ alerts' = 0
    /\ op' = [name |-> "startDrag", ok |-> dragState = Null]
    /\ track' = IF dragState = Null
                THEN [phase |-> "saved", pre |-> Army(units, usedPoints)] ELSE NoTrack
    /\ UNCHANGED <<units, usedPoints, nextId, resizeState, elems, defaultSpawnSettings>>
    /\ log' = IF dragState = Null THEN Append(log, Pushed) ELSE log
    /\ UNCHANGED stored
    /\ UNCHANGED <<panel, otherArmy>>

\* mousemove while dragState is set: handleDrag; (x, y) is the pointer's candidate position
HandleDrag(x, y) ==
    /\ dragState # Null
    /\ LET st == GStyle(dragState, elems)
           newX == Max(0, Min(x, CanvasWidth - OffsetWidth(dragState, elems)))
           newY == Max(0, Min(y, CanvasHeight - OffsetHeight(dragState, elems)))
           validation == validatePlacement(units, dragState.unitId, [x |-> newX, y |-> newY])
           moved == [st EXCEPT !.left = newX, !.top = newY,
                               !.outline = IF ~validation.valid THEN "red" ELSE ""]
       IN  /\ dragState' = GestureWith(dragState, moved)
           /\ elems' = ElemsWith(dragState, elems, moved)
           /\ op' = [name |-> "handleDrag", ok |-> validation.valid, error |-> validation.error,
                     x |-> x, y |-> y]
    /\ alerts' = 0
    /\ UNCHANGED <<units, usedPoints, nextId, history, historyIndex, restored, selectedUnit,
                   resizeState, defaultSpawnSettings, track>>
    /\ UNCHANGED log
    /\ UNCHANGED stored
    /\ UNCHANGED <<panel, otherArmy>>

\* endDrag leaving a rejected preview where the pointer put it: a variant the
\* re-validation property excludes
EndDragKeepingPreview ==
    /\ dragState # Null
    /\ LET st == GStyle(dragState, elems)
           final == [x |-> st.left, y |-> st.top]
           validation == validatePlacement(units, dragState.unitId, final)
           r == IF validation.valid
                THEN updateUnit(units, usedPoints, dragState.unitId, [position |-> final])
                ELSE Result(FALSE, validation.error, units, usedPoints)
           placed == st
           cleaned == [placed EXCEPT !.outline = ""]
       IN  /\ units' = r.units
           /\ usedPoints' = r.usedPoints
           /\ stored' = IF r.success THEN save(r.units, r.usedPoints) ELSE stored
           /\ elems' = ElemsWith(dragState, elems, cleaned)
           /\ restored' = IF r.success THEN Unshare(restored, {dragState.unitId}, FALSE)
                          ELSE restored
           /\ op' = [name |-> "endDrag", ok |-> validation.valid, error |-> validation.error]
           /\ track' = IF validation.valid /\ track.phase = "saved"
                       THEN [phase |-> "mutated", pre |-> track.pre,
                             post |-> Army(r.units, r.usedPoints)]
                       ELSE NoTrack
    /\ dragState' = Null
    /\ alerts' = 0
    /\ UNCHANGED <<nextId, history, historyIndex, selectedUnit, resizeState,
                   defaultSpawnSettings>>
    /\ UNCHANGED log
    /\ UNCHANGED <<panel, otherArmy>>

\* mouseup while dragState is set: endDrag
EndDrag ==
    /\ dragState # Null
    /\ LET st == GStyle(dragState, elems)
           final == [x |-> st.left, y |-> st.top]
           validation == validatePlacement(units, dragState.unitId, final)
           r == IF validation.valid
                THEN updateUnit(units, usedPoints, dragState.unitId, [position |-> final])
                ELSE Result(FALSE, validation.error, units, usedPoints)
           placed == IF validation.valid THEN st
                     ELSE [st EXCEPT !.left = dragState.originalPosition.x,
                                     !.top = dragState.originalPosition.y]
           cleaned == [placed EXCEPT !.outline = ""]
       IN  /\ units' = r.units
           /\ usedPoints' = r.usedPoints
           /\ stored' = IF r.success THEN save(r.units, r.usedPoints) ELSE stored
           /\ elems' = ElemsWith(dragState, elems, cleaned)
           /\ restored' = IF r.success THEN Unshare(restored, {dragState.unitId}, FALSE)
                          ELSE restored
           /\ op' = [name |-> "endDrag", ok |-> validation.valid, error |-> validation.error]
           /\ track' = IF validation.valid /\ track.phase = "saved"
                       THEN [phase |-> "mutated", pre |-> track.pre,
                             post |-> Army(r.units, r.usedPoints)]
                       ELSE NoTrack
    /\ dragState' = Null
    /\ alerts' = 0
    /\ UNCHANGED <<nextId, history, historyIndex, selectedUnit, resizeState,
                   defaultSpawnSettings>>
    /\ UNCHANGED log
    /\ UNCHANGED <<panel, otherArmy>>

\* mousedown on the corner handle of the wrapper of unit id: startResize
StartResize(id, corner) ==
    /\ id \in DOMAIN elems
    /\ LET h == IF resizeState = Null THEN Saved ELSE Unsaved IN
        /\ history' = h.history
        /\ historyIndex' = h.historyIndex
        /\ restored' = h.restored
    /\ selectedUnit' = id
    /\ resizeState' = [unitId |-> id, detached |-> FALSE, style |-> Null, corner |-> corner,
                       originalWidth |-> elems[id].width, originalHeight |-> elems[id].height,
                       originalLeft |-> elems[id].left, originalTop |-> elems[id].top]
    /\ alerts' = 0
    /\ op' = [name |-> "startResize", ok |-> resizeState = Null]
    /\ track' = IF resizeState = Null
                THEN [phase |-> "saved", pre |-> Army(units, usedPoints)] ELSE NoTrack
    /\ UNCHANGED <<units, usedPoints, nextId, dragState, elems, defaultSpawnSettings>>
    /\ log' = IF resizeState = Null THEN Append(log, Pushed) ELSE log
    /\ UNCHANGED stored
    /\ UNCHANGED <<panel, otherArmy>>

\* mousemove while only resizeState is set: handleResize; (dx, dy) is the pointer's delta
HandleResize(dx, dy) ==
    /\ dragState = Null
    /\ resizeState # Null
    /\ LET rs == resizeState
           st == GStyle(rs, elems)
           w0 == IF rs.corner \in {"se", "ne"} THEN rs.originalWidth + dx ELSE rs.originalWidth - dx
           h0 == IF rs.corner \in {"se", "sw"} THEN rs.originalHeight + dy ELSE rs.originalHeight - dy
           newLeft == IF rs.corner \in {"sw", "nw"} THEN rs.originalLeft + dx ELSE rs.originalLeft
           newTop == IF rs.corner \in {"ne", "nw"} THEN rs.originalTop + dy ELSE rs.originalTop
           newWidth == Max(40, w0)
           newHeight == Max(40, h0)
           sized == [st EXCEPT !.width = newWidth, !.height = newHeight,
                               !.left = newLeft, !.top = newTop]
       IN  /\ resizeState' = GestureWith(rs, sized)
           /\ elems' = ElemsWith(rs, elems, sized)
    /\ alerts' = 0
    /\ op' = [name |-> "handleResize", ok |-> TRUE]
    /\ UNCHANGED <<units, usedPoints, nextId, history, historyIndex, restored, selectedUnit,
                   dragState, defaultSpawnSettings, track>>
    /\ UNCHANGED log
    /\ UNCHANGED stored
    /\ UNCHANGED <<panel, otherArmy>>

\* mouseup while only resizeState is set: endResize
EndResize ==
    /\ dragState = Null
    /\ resizeState # Null
    /\ LET rs == resizeState
           st == GStyle(rs, elems)
           result == resizeUnit(units, usedPoints, rs.unitId, st.width, st.height)
           r == IF result.success
                THEN updateUnit(result.units, result.usedPoints, rs.unitId,
                                [position |-> [x |-> st.left, y |-> st.top]])
                ELSE result
           reverted == IF result.success THEN st
                       ELSE [st EXCEPT !.width = rs.originalWidth, !.height = rs.originalHeight,
                                       !.left = rs.originalLeft, !.top = rs.originalTop]
       IN  /\ units' = r.units
           /\ usedPoints' = r.usedPoints
           /\ stored' = IF result.success THEN save(r.units, r.usedPoints) ELSE stored
           /\ elems' = updateUnitElement(ElemsWith(rs, elems, reverted), r.units, rs.unitId)
           /\ restored' = IF result.success THEN Unshare(restored, {rs.unitId}, FALSE)
                          ELSE restored
           /\ alerts' = IF ~result.success /\ result.error # "" THEN 1 ELSE 0
           /\ op' = [name |-> "endResize", ok |-> result.success]
           /\ track' = IF result.success /\ track.phase = "saved"
                       THEN [phase |-> "mutated", pre |-> track.pre,
                             post |-> Army(r.units, r.usedPoints)]
                       ELSE NoTrack
    /\ resizeState' = Null
    /\ UNCHANGED <<nextId, history, historyIndex, selectedUnit, dragState,
                   defaultSpawnSettings>>
    /\ UNCHANGED log
    /\ UNCHANGED <<panel, otherArmy>>

\* mousedown on the empty canvas: selectUnit(null)
MouseDownCanvas ==
    /\ selectedUnit' = 0
    /\ alerts' = 0
    /\ op' = [name |-> "deselect", ok |-> TRUE]
    /\ track' = NoTrack
    /\ UNCHANGED <<units, usedPoints, nextId, history, historyIndex, restored, dragState,
                   resizeState, elems, defaultSpawnSettings>>
    /\ UNCHANGED log
    /\ UNCHANGED stored
    /\ UNCHANGED <<panel, otherArmy>>

----------------------------------------------------------------------------
(* Undo / redo.                                                             *)

\* restoreState(history[idx]) (idx 0-based): the army becomes the snapshot's own
\* unit objects, every wrapper is rebuilt, the selection is cleared
RestoreState(idx) ==
    LET state == history[idx + 1] IN
    /\ units' = state.units
    /\ usedPoints' = state.totalPoints
    /\ elems' = RenderAll(state.units)
    /\ restored' = [at |-> idx + 1, obj |-> UnitIds(state.units), arr |-> UnitIds(state.units)]
    /\ selectedUnit' = 0
    /\ dragState' = Detach(dragState, elems)
    /\ resizeState' = Detach(resizeState, elems)

\* The guards of undo() and redo()
CanUndo == historyIndex > 0
CanRedo == historyIndex < Len(history) - 1

\* undo() with selectUnit(null) outside its guard: a variant the boundary property excludes
UndoDeselecting ==
    /\ IF CanUndo
       THEN /\ historyIndex' = historyIndex - 1
            /\ RestoreState(historyIndex - 1)
       ELSE /\ selectedUnit' = 0
            /\ UNCHANGED <<units, usedPoints, elems, restored, dragState,
                           resizeState, historyIndex>>
    /\ alerts' = 0
    /\ op' = [name |-> "undo", ok |-> CanUndo]
    /\ track' = IF track.phase = "mutated" THEN [track EXCEPT !.phase = "undone"] ELSE NoTrack
    /\ UNCHANGED <<nextId, history, defaultSpawnSettings>>
    /\ log' = IF CanUndo THEN <<>> ELSE log
    /\ UNCHANGED stored
    /\ UNCHANGED <<panel, otherArmy>>

\* Ctrl+Z: undo()
Undo ==
    /\ IF CanUndo
       THEN /\ historyIndex' = historyIndex - 1
            /\ RestoreState(historyIndex - 1)
       ELSE UNCHANGED <<units, usedPoints, elems, restored, selectedUnit, dragState,
                        resizeState, historyIndex>>
    /\ alerts' = 0
    /\ op' = [name |-> "undo", ok |-> CanUndo]
    /\ track' = IF track.phase = "mutated" THEN [track EXCEPT !.phase = "undone"] ELSE NoTrack
    /\ UNCHANGED <<nextId, history, defaultSpawnSettings>>
    /\ log' = IF CanUndo THEN <<>> ELSE log
    /\ UNCHANGED stored
    /\ UNCHANGED <<panel, otherArmy>>

\* Ctrl+Y / Ctrl+Shift+Z: redo()
Redo ==
    /\ IF CanRedo
       THEN /\ historyIndex' = historyIndex + 1
            /\ RestoreState(historyIndex + 1)
       ELSE UNCHANGED <<units, usedPoints, elems, restored, selectedUnit, dragState,
                        resizeState, historyIndex>>
    /\ alerts' = 0
    /\ op' = [name |-> "redo", ok |-> CanRedo]
    /\ track' = IF track.phase = "undone" THEN [track EXCEPT !.phase = "redone"] ELSE NoTrack
    /\ UNCHANGED <<nextId, history, defaultSpawnSettings>>
    /\ log' = IF CanRedo THEN <<>> ELSE log
    /\ UNCHANGED stored
    /\ UNCHANGED <<panel, otherArmy>>

----------------------------------------------------------------------------
(* Keyboard and icon-button commands.                                       *)

\* Delete key: saveHistory, then ArmyBuilder.removeUnit(selectedUnit)
KeyDelete ==
    /\ selectedUnit # 0
    /\ dragState = Null
    /\ resizeState = Null
    /\ LET r == removeUnit(units, usedPoints, selectedUnit) IN
        /\ units' = r.units
        /\ usedPoints' = r.usedPoints
        /\ stored' = IF r.success THEN save(r.units, r.usedPoints) ELSE stored
        /\ elems' = IF r.success THEN [id \in DOMAIN elems \ {selectedUnit} |-> elems[id]]
                    ELSE elems
        /\ selectedUnit' = IF r.success THEN 0 ELSE selectedUnit
        /\ restored' = IF r.success THEN Unshare(Saved.restored, {selectedUnit}, TRUE)
                       ELSE Saved.restored
        /\ op' = [name |-> "delete", ok |-> r.success]
        /\ track' = IF r.success
                    THEN [phase |-> "mutated", pre |-> Army(units, usedPoints),
                          post |-> Army(r.units, r.usedPoints)]
                    ELSE NoTrack
    /\ history' = Saved.history
    /\ historyIndex' = Saved.historyIndex
    /\ alerts' = 0
    /\ UNCHANGED <<nextId, dragState, resizeState, defaultSpawnSettings>>
    /\ log' = Append(log, Pushed)
    /\ UNCHANGED <<panel, otherArmy>>

\* Escape key: selectUnit(null), and the character panel is hidden
KeyEscape ==
    /\ selectedUnit' = 0
    /\ panel' = [panel EXCEPT !.shown = FALSE]
    /\ alerts' = 0
    /\ op' = [name |-> "escape", ok |-> TRUE]
    /\ track' = NoTrack
    /\ UNCHANGED <<units, usedPoints, nextId, history, historyIndex, restored, dragState,
                   resizeState, elems, defaultSpawnSettings>>
    /\ UNCHANGED log
    /\ UNCHANGED stored
    /\ UNCHANGED otherArmy

\* unitType.costPerSoldier: UNIT_TYPES has no such field, and a number times
\* undefined is NaN
CostPerSoldierTimes(type, soldierCount) ==
    IF "costPerSoldier" \in DOMAIN UNIT_TYPES[type]
    THEN soldierCount * UNIT_TYPES[type]["costPerSoldier"]
    ELSE NaN

\* The slot duplicateUnit picks: right, else left, else below, else a diagonal offset
DuplicatePosition(unit) ==
    LET unitSize == getUnitVisualSize(unit.formation)
        gap == 10
        right == unit.position.x + unitSize.width + gap
        left == unit.position.x - unitSize.width - gap
        below == unit.position.y + unitSize.height + gap
    IN  IF ~(right + unitSize.width > CanvasWidth) THEN [x |-> right, y |-> unit.position.y]
        ELSE IF ~(left < 0) THEN [x |-> left, y |-> unit.position.y]
        ELSE IF ~(below + unitSize.height > CanvasHeight) THEN [x |-> unit.position.x, y |-> below]
        ELSE [x |-> Min(unit.position.x + 30, CanvasWidth - unitSize.width),
              y |-> Min(unit.position.y + 30, CanvasHeight - unitSize.height)]

\* The unit duplicateUnit pushes
DuplicateOf(unit, id) ==
    [unit EXCEPT !.id = id,
                 !.position = DuplicatePosition(unit),
                 !.name = [@ EXCEPT !.copies = @ + 1],
                 !.general = <<>>,
                 !.soldiers = <<>>,
                 !.cost = CostPerSoldierTimes(unit.type, unit.soldierCount)]

\* UnitCanvas.duplicateUnit(unitId), for a unit of the army
DuplicateUnit(unitId) ==
    /\ HasUnit(units, unitId)
    /\ LET unit == FindUnit(units, unitId)
           newUnit == DuplicateOf(unit, nextId + 1)
       IN  /\ units' = Append(units, newUnit)
           /\ usedPoints' = JsAdd(usedPoints, newUnit.cost)
           /\ elems' = [id \in DOMAIN elems \cup {nextId + 1} |->
                          IF id = nextId + 1 THEN RenderStyle(newUnit) ELSE elems[id]]
           /\ track' = [phase |-> "mutated", pre |-> Army(units, usedPoints),
                        post |-> Army(units', usedPoints')]
    /\ nextId' = nextId + 1
    /\ selectedUnit' = nextId + 1
    /\ history' = Saved.history
    /\ historyIndex' = Saved.historyIndex
    /\ restored' = Saved.restored
    /\ alerts' = 0
    /\ op' = [name |-> "duplicate", ok |-> TRUE]
    /\ UNCHANGED <<dragState, resizeState, defaultSpawnSettings>>
    /\ log' = Append(log, Pushed)
    /\ UNCHANGED stored
    /\ UNCHANGED <<panel, otherArmy>>

\* Ctrl+D: duplicateUnit(selectedUnit)
KeyDuplicate == selectedUnit # 0 /\ DuplicateUnit(selectedUnit)

\* The duplicate button of the wrapper of unit id
ClickDuplicate(id) == id \in DOMAIN elems /\ DuplicateUnit(id)

RECURSIVE CopyLoop(_, _, _, _)
\* The for-of loop of copyShapeToAllOfType, from index i on
CopyLoop(us, pts, i, unit) ==
    IF i > Len(us) THEN Army(us, pts)
    ELSE IF us[i].type = unit.type /\ us[i].id # unit.id
         THEN LET r == updateUnit(us, pts, us[i].id,
                           [soldierCount |-> unit.soldierCount, formation |-> unit.formation])
              IN  CopyLoop(r.units, r.usedPoints, i + 1, unit)
         ELSE CopyLoop(us, pts, i + 1, unit)

RECURSIVE SyncElements(_, _, _)
\* updateUnitElement for each id of ids
SyncElements(els, us, ids) ==
    IF ids = {} THEN els
    ELSE LET id == CHOOSE x \in ids : TRUE
         IN  SyncElements(updateUnitElement(els, us, id), us, ids \ {id})

\* The copy-shape button of the wrapper of unit id: copyShapeToAllOfType
CopyShape(id) ==
    /\ id \in DOMAIN elems
    /\ HasUnit(units, id)
    /\ LET unit == FindUnit(units, id)
           a == CopyLoop(units, usedPoints, 1, unit)
           targets == {u \in UnitIds(units) : u # id /\ FindUnit(units, u).type = unit.type}
           done == {u \in targets : validateUnitSize(unit.type, unit.soldierCount).valid}
       IN  /\ units' = a.units
           /\ usedPoints' = a.usedPoints
           /\ stored' = IF done # {} THEN save(a.units, a.usedPoints) ELSE stored
           /\ elems' = SyncElements(elems, a.units, done)
           /\ restored' = Unshare(restored, done, FALSE)
    /\ alerts' = 0
    /\ op' = [name |-> "copyShape", ok |-> TRUE, id |-> id]
    /\ track' = NoTrack
    /\ UNCHANGED <<nextId, history, historyIndex, selectedUnit, dragState, resizeState,
                   defaultSpawnSettings>>
    /\ UNCHANGED log
    /\ UNCHANGED <<panel, otherArmy>>

RECURSIVE AlignLoop(_, _, _, _, _, _)
\* The for-of loop of alignUnitsToRight, from index i on; moved collects the units moved
AlignLoop(us, pts, i, unit, currentX, moved) ==
    IF i > Len(us) THEN [units |-> us, usedPoints |-> pts, moved |-> moved]
    ELSE IF us[i].type = unit.type /\ us[i].id # unit.id
         THEN LET target == [x |-> currentX, y |-> unit.position.y]
                  validation == validatePlacement(us, us[i].id, target)
              IN  IF validation.valid
                  THEN LET r == updateUnit(us, pts, us[i].id, [position |-> target])
                       IN  AlignLoop(r.units, r.usedPoints, i + 1, unit,
                                     currentX + getUnitVisualSize(us[i].formation).width + 20,
                                     moved \cup {us[i].id})
                  ELSE AlignLoop(us, pts, i + 1, unit, currentX, moved)
         ELSE AlignLoop(us, pts, i + 1, unit, currentX, moved)

\* alignUnitsToRight starting its row at the source's left edge plus the spacing,
\* the source's width forgotten: a variant the align property excludes
AlignRightFromLeftEdge(id) ==
    /\ id \in DOMAIN elems
    /\ HasUnit(units, id)
    /\ LET unit == FindUnit(units, id)
           a == AlignLoop(units, usedPoints, 1, unit,
                          unit.position.x + 20, {})
       IN  /\ units' = a.units
           /\ usedPoints' = a.usedPoints
           /\ stored' = IF a.moved # {} THEN save(a.units, a.usedPoints) ELSE stored
           /\ elems' = SyncElements(elems, a.units, a.moved)
           /\ restored' = Unshare(restored, a.moved, FALSE)
    /\ alerts' = 0
    /\ op' = [name |-> "alignRight", ok |-> TRUE, id |-> id]
    /\ track' = NoTrack
    /\ UNCHANGED <<nextId, history, historyIndex, selectedUnit, dragState, resizeState,
                   defaultSpawnSettings>>
    /\ UNCHANGED log
    /\ UNCHANGED <<panel, otherArmy>>

\* The align button of the wrapper of unit id: alignUnitsToRight
AlignRight(id) ==
    /\ id \in DOMAIN elems
    /\ HasUnit(units, id)
    /\ LET unit == FindUnit(units, id)
           a == AlignLoop(units, usedPoints, 1, unit,
                          unit.position.x + getUnitVisualSize(unit.formation).width + 20, {})
       IN  /\ units' = a.units
           /\ usedPoints' = a.usedPoints
           /\ stored' = IF a.moved # {} THEN save(a.units, a.usedPoints) ELSE stored
           /\ elems' = SyncElements(elems, a.units, a.moved)
           /\ restored' = Unshare(restored, a.moved, FALSE)
    /\ alerts' = 0
    /\ op' = [name |-> "alignRight", ok |-> TRUE, id |-> id]
    /\ track' = NoTrack
    /\ UNCHANGED <<nextId, history, historyIndex, selectedUnit, dragState, resizeState,
                   defaultSpawnSettings>>
    /\ UNCHANGED log
    /\ UNCHANGED <<panel, otherArmy>>

\* The star button of the wrapper of unit id: setDefaultSpawnShape
SetDefaultSpawn(id) ==
    /\ id \in DOMAIN elems
    /\ HasUnit(units, id)
    /\ LET unit == FindUnit(units, id) IN
        defaultSpawnSettings' =
            [t \in DOMAIN defaultSpawnSettings \cup {unit.type} |->
                IF t = unit.type
                THEN [formation |-> unit.formation, soldierCount |-> unit.soldierCount]
                ELSE defaultSpawnSettings[t]]
    /\ alerts' = 0
    /\ op' = [name |-> "setDefault", ok |-> TRUE, id |-> id]
    /\ track' = NoTrack
    /\ UNCHANGED <<units, usedPoints, nextId, history, historyIndex, restored, selectedUnit,
                   dragState, resizeState, elems>>
    /\ UNCHANGED log
    /\ UNCHANGED stored
    /\ UNCHANGED <<panel, otherArmy>>

\* The name label of the wrapper of unit id: editUnitName, saveEdit with a new name
Rename(id, newName) ==
    /\ id \in DOMAIN elems
    /\ HasUnit(units, id)
    /\ newName # FindUnit(units, id).name
    /\ LET r == updateUnit(units, usedPoints, id, [name |-> newName]) IN
        /\ units' = r.units
        /\ usedPoints' = r.usedPoints
        /\ stored' = IF r.success THEN save(r.units, r.usedPoints) ELSE stored
        /\ restored' = Unshare(Saved.restored, {id}, FALSE)
        /\ track' = [phase |-> "mutated", pre |-> Army(units, usedPoints),
                     post |-> Army(r.units, r.usedPoints)]
    /\ history' = Saved.history
    /\ historyIndex' = Saved.historyIndex
    /\ alerts' = 0
    /\ op' = [name |-> "rename", ok |-> TRUE]
    /\ UNCHANGED <<nextId, selectedUnit, dragState, resizeState, elems, defaultSpawnSettings>>
    /\ log' = Append(log, Pushed)
    /\ UNCHANGED <<panel, otherArmy>>


----------------------------------------------------------------------------
(* The character panel: showCharacterPanel, assignCharacterToUnit,          *)
(* removeCharacterFromUnit, displayAvailableCharacters.                     *)

\* this.availableCharacters once loadCharacters() has filled it: the ids of the roster
availableCharacters == {"a", "c"}

\* The page exposes the configuration service as window.battleConfig, which
\* displayAvailableCharacters reads the other player's army from
windowBattleConfig == TRUE

\* The ids a unit references: its general and its soldiers
UnitCharacters(unit) ==
    {unit.general[k] : k \in 1..Len(unit.general)} \cup {unit.soldiers[k] : k \in 1..Len(unit.soldiers)}

\* assignedIds collecting the generals only: a variant the exclusion property excludes
assignedIdsGeneralsOnly(us, other) ==
    UNION {{us[i].general[k] : k \in 1..Len(us[i].general)} : i \in 1..Len(us)}
        \cup (IF windowBattleConfig THEN other ELSE {})

\* assignedIds of displayAvailableCharacters: the panel's unit, the other units of
\* the army, and the units of the other player's army
assignedIds(us, other) ==
    UNION {UnitCharacters(us[i]) : i \in 1..Len(us)} \cup (IF windowBattleConfig THEN other ELSE {})

\* updateCharacterPanel(unit): the general slot and the soldiers list, each entry
\* with its remove button
updateCharacterPanel(pn, unit) ==
    [pn EXCEPT !.general = unit.general,
               !.soldiers = {unit.soldiers[k] : k \in 1..Len(unit.soldiers)}]

\* displayAvailableCharacters: the list of roster characters not in assignedIds,
\* each with a soldier button and, if the panel's unit has no general, a general button
displayAvailableCharacters(pn, us, other) ==
    IF ~HasUnit(us, pn.unitId) THEN pn
    ELSE [pn EXCEPT !.listed = availableCharacters \ assignedIds(us, other),
                    !.generalBtn = FindUnit(us, pn.unitId).general = <<>>]

\* The snapshot that shares the soldiers array (or the object) of unit id sees the
\* array change with it
WriteShared(h, rst, shared, id, soldiers) ==
    IF rst.at = 0 \/ id \notin shared THEN h
    ELSE [h EXCEPT ![rst.at].units =
            [k \in DOMAIN @ |-> IF @[k].id = id THEN [@[k] EXCEPT !.soldiers = soldiers]
                                ELSE @[k]]]

\* The assign-characters button of the wrapper of unit id: showCharacterPanel
ShowCharacterPanel(id) ==
    /\ id \in DOMAIN elems
    /\ panel' = IF ~HasUnit(units, id) THEN panel
                ELSE displayAvailableCharacters(
                        updateCharacterPanel([panel EXCEPT !.shown = TRUE, !.unitId = id],
                                             FindUnit(units, id)),
                        units, otherArmy)
    /\ alerts' = 0
    /\ op' = [name |-> "showPanel", ok |-> HasUnit(units, id)]
    /\ track' = NoTrack
    /\ UNCHANGED <<units, usedPoints, nextId, history, historyIndex, restored, selectedUnit,
                   dragState, resizeState, elems, defaultSpawnSettings, log, stored, otherArmy>>

\* assignCharacterToUnit with no confirm() before a general is replaced: a variant
\* the confirmation property excludes
AssignWithoutConfirm(c, role, answer) ==
    /\ panel.shown
    /\ c \in panel.listed
    /\ role = "general" => panel.generalBtn
    /\ LET id == panel.unitId
           present == HasUnit(units, id)
           unit == FindUnit(units, id)
           pushed == Append(unit.soldiers, c)
           h == IF role = "soldier"
                THEN WriteShared(Saved.history, Saved.restored, Saved.restored.arr, id, pushed)
                ELSE Saved.history
           r == IF role = "general"
                THEN updateUnit(units, usedPoints, id, [general |-> <<c>>])
                ELSE updateUnit(units, usedPoints, id, [soldiers |-> pushed])
       IN  IF ~present
           THEN /\ UNCHANGED <<units, usedPoints, history, historyIndex, restored, stored,
                               panel, log>>
                /\ op' = [name |-> "assignCharacter", ok |-> FALSE, role |-> role,
                          asked |-> FALSE, answer |-> answer]
           ELSE /\ units' = r.units
                /\ usedPoints' = r.usedPoints
                /\ stored' = save(r.units, r.usedPoints)
                /\ history' = h
                /\ historyIndex' = Saved.historyIndex
                /\ restored' = Unshare(Saved.restored, {id}, role = "soldier")
                /\ panel' = displayAvailableCharacters(
                                updateCharacterPanel(panel, FindUnit(r.units, id)),
                                r.units, otherArmy)
                /\ log' = Append(log, Pushed)
                /\ op' = [name |-> "assignCharacter", ok |-> TRUE, role |-> role,
                          asked |-> FALSE, answer |-> answer]
    /\ alerts' = 0
    /\ track' = IF units' # units
                THEN [phase |-> "mutated", pre |-> Army(units, usedPoints),
                      post |-> Army(units', usedPoints')]
                ELSE NoTrack
    /\ UNCHANGED <<nextId, selectedUnit, dragState, resizeState, elems, defaultSpawnSettings,
                   otherArmy>>

\* A general or soldier button of the panel's list, for character c:
\* assignCharacterToUnit; answer is what the user answers if confirm() is shown
AssignCharacter(c, role, answer) ==
    /\ panel.shown
    /\ c \in panel.listed
    /\ role = "general" => panel.generalBtn
    /\ LET id == panel.unitId
           present == HasUnit(units, id)
           unit == FindUnit(units, id)
           asked == role = "general" /\ unit.general # <<>>
           pushed == Append(unit.soldiers, c)
           h == IF role = "soldier"
                THEN WriteShared(Saved.history, Saved.restored, Saved.restored.arr, id, pushed)
                ELSE Saved.history
           r == IF role = "general"
                THEN updateUnit(units, usedPoints, id, [general |-> <<c>>])
                ELSE updateUnit(units, usedPoints, id, [soldiers |-> pushed])
       IN  IF ~present
           THEN /\ UNCHANGED <<units, usedPoints, history, historyIndex, restored, stored,
                               panel, log>>
                /\ op' = [name |-> "assignCharacter", ok |-> FALSE, role |-> role,
                          asked |-> FALSE, answer |-> answer]
           ELSE IF asked /\ ~answer
           THEN /\ UNCHANGED <<units, usedPoints, stored, panel>>
                /\ history' = Saved.history
                /\ historyIndex' = Saved.historyIndex
                /\ restored' = Saved.restored
                /\ log' = Append(log, Pushed)
                /\ op' = [name |-> "assignCharacter", ok |-> FALSE, role |-> role,
                          asked |-> TRUE, answer |-> FALSE]
           ELSE /\ units' = r.units
                /\ usedPoints' = r.usedPoints
                /\ stored' = save(r.units, r.usedPoints)
                /\ history' = h
                /\ historyIndex' = Saved.historyIndex
                /\ restored' = Unshare(Saved.restored, {id}, role = "soldier")
                /\ panel' = displayAvailableCharacters(
                                updateCharacterPanel(panel, FindUnit(r.units, id)),
                                r.units, otherArmy)
                /\ log' = Append(log, Pushed)
                /\ op' = [name |-> "assignCharacter", ok |-> TRUE, role |-> role,
                          asked |-> asked, answer |-> answer]
    /\ alerts' = 0
    /\ track' = IF units' # units
                THEN [phase |-> "mutated", pre |-> Army(units, usedPoints),
                      post |-> Army(units', usedPoints')]
                ELSE NoTrack
    /\ UNCHANGED <<nextId, selectedUnit, dragState, resizeState, elems, defaultSpawnSettings,
                   otherArmy>>

\* Array.prototype.filter(s => s.id !== characterId)
RECURSIVE Without(_, _)
Without(soldiers, c) ==
    IF soldiers = <<>> THEN <<>>
    ELSE IF Head(soldiers) = c THEN Without(Tail(soldiers), c)
    ELSE <<Head(soldiers)>> \o Without(Tail(soldiers), c)

\* A remove button of the panel (the general's, or the one of soldier c):
\* removeCharacterFromUnit. The click then reaches the document's click listener
\* with a button that updateCharacterPanel has taken out of the panel, which
\* hides the panel
RemoveCharacter(role, c) ==
    /\ panel.shown
    /\ \/ role = "general" /\ panel.general = <<c>>
       \/ role = "soldier" /\ c \in panel.soldiers
    /\ LET id == panel.unitId
           present == HasUnit(units, id)
           unit == FindUnit(units, id)
           filtered == Without(unit.soldiers, c)
           h == IF role = "soldier"
                THEN WriteShared(Saved.history, Saved.restored, Saved.restored.obj, id, filtered)
                ELSE Saved.history
           r == IF role = "general"
                THEN updateUnit(units, usedPoints, id, [general |-> <<>>])
                ELSE updateUnit(units, usedPoints, id, [soldiers |-> filtered])
           stale == IF role = "general" THEN unit ELSE [unit EXCEPT !.soldiers = filtered]
       IN  IF ~present
           THEN /\ UNCHANGED <<units, usedPoints, history, historyIndex, restored, stored,
                               panel, log>>
                /\ op' = [name |-> "removeCharacter", ok |-> FALSE, role |-> role]
           ELSE /\ units' = r.units
                /\ usedPoints' = r.usedPoints
                /\ stored' = save(r.units, r.usedPoints)
                /\ history' = h
                /\ historyIndex' = Saved.historyIndex
                /\ restored' = Unshare(Saved.restored, {id}, role = "soldier")
                /\ panel' = [displayAvailableCharacters(updateCharacterPanel(panel, stale),
                                                        r.units, otherArmy)
                                EXCEPT !.shown = FALSE]
                /\ log' = Append(log, Pushed)
                /\ op' = [name |-> "removeCharacter", ok |-> TRUE, role |-> role]
    /\ alerts' = 0
    /\ track' = IF units' # units
                THEN [phase |-> "mutated", pre |-> Army(units, usedPoints),
                      post |-> Army(units', usedPoints')]
                ELSE NoTrack
    /\ UNCHANGED <<nextId, selectedUnit, dragState, resizeState, elems, defaultSpawnSettings,
                   otherArmy>>

\* The close button of the panel, or a click outside the panel that reaches the
\* document's click listener: the panel is hidden
ClosePanel ==
    /\ panel.shown
    /\ panel' = [panel EXCEPT !.shown = FALSE]
    /\ alerts' = 0
    /\ op' = [name |-> "closePanel", ok |-> TRUE]
    /\ track' = NoTrack
    /\ UNCHANGED <<units, usedPoints, nextId, history, historyIndex, restored, selectedUnit,
                   dragState, resizeState, elems, defaultSpawnSettings, log, stored, otherArmy>>

----------------------------------------------------------------------------
(* The editor under undo and redo: units are created, dragged, duplicated   *)
(* and deleted, and Ctrl+Z / Ctrl+Y move through the history.               *)

\* units created or duplicated, and snapshots held, in this specification
MaxCreated == 2
MaxSnapshots == 2

\* unit types offered by the add-unit control here
UndoTypes == {"hoplite"}

\* candidate positions of the pointer during a drag
UndoDragTargets == {<<230, 160>>}

Next ==
    \/ nextId < MaxCreated /\ \E t \in UndoTypes : CreateUnit(t)
    \/ Len(history) < MaxSnapshots /\ \E id \in DOMAIN elems : StartDrag(id)
    \/ \E p \in UndoDragTargets : HandleDrag(p[1], p[2])
    \/ EndDrag
    \/ Len(history) < MaxSnapshots /\ KeyDelete
    \/ Len(history) < MaxSnapshots /\ nextId < MaxCreated /\ KeyDuplicate
    \/ KeyEscape
    \/ MouseDownCanvas
    \/ Undo
    \/ Redo

Spec == Init /\ [][Next]_vars

\* C1: after saveHistory() and one mutating command, undo() leaves the units and
\* the point total as they were when saveHistory() was called
C1_UndoRestoresSaved ==
    track.phase = "undone" =>
        /\ units = track.pre.units
        /\ usedPoints = track.pre.usedPoints

\* C2: after saveHistory(), a mutating command and undo(), redo() leaves the units
\* and the point total as they were just before undo() was called
C2_RedoRestoresMutated ==
    track.phase = "redone" =>
        /\ units = track.post.units
        /\ usedPoints = track.post.usedPoints

\* C4: undo() at history index 0 or with an empty history, and redo() at the last
\* index, change neither the units, the point total, the history, the index nor
\* the selection
C4_BoundaryIsNoOp ==
    [][ (\/ op'.name = "undo" /\ historyIndex <= 0
         \/ op'.name = "redo" /\ historyIndex >= Len(history) - 1)
        => UNCHANGED <<units, usedPoints, history, historyIndex, selectedUnit>> ]_vars

\* undo() ran at index 0 with a unit selected and an army to lose
C4_Witness ==
    /\ op.name = "undo"
    /\ ~op.ok
    /\ historyIndex = 0
    /\ selectedUnit # 0
    /\ units # <<>>

----------------------------------------------------------------------------
(* The history at its size limit: one unit is renamed back and forth, each  *)
(* rename pushing a snapshot, with undo and redo while the history is short.*)

\* snapshots pushed in a row, and the history length up to which undo/redo are tried
HistMaxSaves == 52
HistUndoWindow == 2

\* names typed into the name label
HistNames == {[base |-> "custom", n |-> 1, copies |-> 0],
              [base |-> "hoplite", n |-> 1, copies |-> 0]}

NextHist ==
    \/ units = <<>> /\ nextId = 0 /\ CreateUnit("hoplite")
    \/ Len(log) < HistMaxSaves /\ \E id \in DOMAIN elems, nm \in HistNames : Rename(id, nm)
    \/ Len(history) <= HistUndoWindow /\ Undo
    \/ Len(history) <= HistUndoWindow /\ Redo
    \/ \E id \in DOMAIN elems : SetDefaultSpawn(id)
    \/ KeyEscape

SpecHist == Init /\ [][NextHist]_vars

\* C3: after more than 50 saveHistory() calls with no undo in between, the history
\* is the 50 snapshots saved last, in save order, and historyIndex is 49
C3_KeepsLatestFifty ==
    Len(log) > 50 =>
        /\ Len(history) = 50
        /\ historyIndex = 49
        /\ \A i \in 1..50 : history[i] = log[Len(log) - 50 + i]

\* 52 snapshots were pushed in a row, and neighbouring snapshots differ
C3_Witness ==
    /\ Len(log) = 52
    /\ history[1] # history[2]
    /\ history[49] # history[50]

----------------------------------------------------------------------------
(* Pointer gestures: a unit is dragged and resized, and undo moves the      *)
(* history index off the end so that a gesture also starts from there.      *)

\* snapshots held in this specification, which creates a single unit
GestureMaxSnapshots == 3

GestureTypes == {"hoplite", "cavalry"}
GestureCorners == {"se", "nw"}
GestureDragTargets == {<<230, 160>>, <<0 - 20, 500>>}
GestureResizeDeltas == {<<30, 20>>, <<0 - 70, 0 - 30>>, <<200, 180>>}

NextGesture ==
    \/ nextId = 0 /\ \E t \in GestureTypes : CreateUnit(t)
    \/ Len(history) < GestureMaxSnapshots /\ resizeState = Null
            /\ \E id \in DOMAIN elems : StartDrag(id)
    \/ \E p \in GestureDragTargets : HandleDrag(p[1], p[2])
    \/ EndDrag
    \/ Len(history) < GestureMaxSnapshots /\ resizeState = Null /\ dragState = Null
            /\ \E id \in DOMAIN elems, c \in GestureCorners : StartResize(id, c)
    \/ \E d \in GestureResizeDeltas : HandleResize(d[1], d[2])
    \/ EndResize
    \/ dragState = Null /\ resizeState = Null /\ Undo

SpecGesture == Init /\ [][NextGesture]_vars

----------------------------------------------------------------------------
(* Placement: hoplite blocks are created next to each other and dragged     *)
(* onto, against and away from each other, and aligned.                     *)

\* units created, and drags begun, in this specification
PlaceMaxCreated == 2
PlaceMaxDrags == 1

\* pointer positions: against the right edge of a hoplite block at the first slot,
\* one pixel clear of it, on top of it, and in free space
PlaceDragTargets == {<<150, 50>>, <<151, 50>>, <<60, 60>>, <<230, 180>>}

\* every unit starts left of the canvas's right edge (align-to-right is tried only then:
\* it moves units right without limit)
OnCanvas == \A i \in 1..Len(units) : units[i].position.x < CanvasWidth

NextPlace ==
    \/ nextId < PlaceMaxCreated /\ CreateUnit("hoplite")
    \/ Len(history) < PlaceMaxDrags /\ dragState = Null
            /\ \E id \in DOMAIN elems : StartDrag(id)
    \/ \E p \in PlaceDragTargets : HandleDrag(p[1], p[2])
    \/ EndDrag
    \/ OnCanvas /\ \E id \in DOMAIN elems : AlignRight(id)

SpecPlace == Init /\ [][NextPlace]_vars

\* The footprint of a unit: its rectangle at a position, sized by getUnitVisualSize
Footprint(unit, pos) ==
    [x |-> pos.x, y |-> pos.y,
     w |-> getUnitVisualSize(unit.formation).width,
     h |-> getUnitVisualSize(unit.formation).height]

\* Two rectangles with an interior point in common
RectsShareArea(a, b) ==
    /\ Max(a.x, b.x) < Min(a.x + a.w, b.x + b.w)
    /\ Max(a.y, b.y) < Min(a.y + a.h, b.y + b.h)

\* Two rectangles with a point in common, an edge or a corner included: neither
\* lies entirely to one side of the other
RectsMeet(a, b) ==
    /\ Max(a.x, b.x) <= Min(a.x + a.w, b.x + b.w)
    /\ Max(a.y, b.y) <= Min(a.y + a.h, b.y + b.h)

\* The footprint of unit id, put at pos, meets the footprint of another unit
MeetsAnother(us, id, pos) ==
    \E i \in 1..Len(us) :
        /\ us[i].id # id
        /\ RectsMeet(Footprint(FindUnit(us, id), pos), Footprint(us[i], us[i].position))

\* The position a drag is at: where the pointer last put the dragged wrapper
DragPosition(g, els) == [x |-> GStyle(g, els).left, y |-> GStyle(g, els).top]

\* C7: validatePlacement, as called on pointer-move and on pointer-up, answers
\* invalid with 'Units cannot overlap' exactly when the unit's footprint at the
\* position meets another unit's footprint, answers valid otherwise, and the
\* army is the same after the call (a rejected pointer-up leaves it too)
C7_PlacementIsOverlapTest ==
    [][ (op'.name \in {"handleDrag", "endDrag"} /\ HasUnit(units, dragState.unitId))
        => LET id == dragState.unitId
               pos == IF op'.name = "handleDrag" THEN DragPosition(dragState', elems')
                      ELSE DragPosition(dragState, elems)
           IN  /\ MeetsAnother(units, id, pos)
                    => ~op'.ok /\ op'.error = "Units cannot overlap"
               /\ ~MeetsAnother(units, id, pos) => op'.ok
               /\ (op'.name = "handleDrag" \/ ~op'.ok)
                    => units' = units /\ usedPoints' = usedPoints ]_vars

\* a pointer-move put a unit's footprint edge to edge with another unit's, not
\* sharing any area with it, and the placement was answered invalid
C7_Witness ==
    /\ op.name = "handleDrag"
    /\ ~op.ok
    /\ dragState # Null
    /\ HasUnit(units, dragState.unitId)
    /\ \A i \in 1..Len(units) :
            units[i].id # dragState.unitId
            => ~RectsShareArea(Footprint(FindUnit(units, dragState.unitId),
                                         DragPosition(dragState, elems)),
                               Footprint(units[i], units[i].position))

\* C13: the pointer-up that ends a drag validates the final preview position again.
\* When the unit's footprint there overlaps another unit's, or the placement is
\* refused, the army is unchanged and the preview is back where it was at the
\* pointer-down; when it is accepted, the dragged unit's position becomes the final
\* preview position and nothing else in the army changes
C13_EndDragRevalidates ==
    [][ (op'.name = "endDrag" /\ HasUnit(units, dragState.unitId))
        => LET id == dragState.unitId
               i == FindIndex(units, id)
               pos == DragPosition(dragState, elems)
               overlaps == \E j \in 1..Len(units) :
                              /\ j # i
                              /\ RectsShareArea(Footprint(units[i], pos),
                                                Footprint(units[j], units[j].position))
           IN  /\ overlaps => ~op'.ok
               /\ ~op'.ok => /\ units' = units
                             /\ usedPoints' = usedPoints
                             /\ elems'[id].left = dragState.originalPosition.x
                             /\ elems'[id].top = dragState.originalPosition.y
               /\ op'.ok => /\ units' = [units EXCEPT ![i].position = pos]
                            /\ usedPoints' = usedPoints
                            /\ elems'[id].left = pos.x
                            /\ elems'[id].top = pos.y ]_vars

\* a drag that had moved the preview onto another unit ended: it was refused, and
\* the wrapper is back at the unit's position
C13_Witness ==
    /\ op.name = "endDrag"
    /\ ~op.ok
    /\ op.error = "Units cannot overlap"
    /\ Len(units) = 2
    /\ \A id \in DOMAIN elems : HasUnit(units, id) /\ elems[id].left = FindUnit(units, id).position.x

----------------------------------------------------------------------------
(* Unit sizes: soldier counts are typed in, blocks are resized, shapes are  *)
(* copied and stored as spawn templates, units are duplicated and undone.   *)

\* units created or duplicated, and snapshots held, in this specification
SizeMaxCreated == 2
SizeMaxSnapshots == 2

SizeTypes == {"hoplite", "cavalry"}

\* soldier counts typed into the soldier-count control
SizeCounts == {250}

\* pointer deltas of a resize by the south-east handle
SizeResizeDeltas == {<<200, 180>>, <<30, 20>>}

NextSize ==
    \/ resizeState = Null /\ nextId < SizeMaxCreated /\ \E t \in SizeTypes : CreateUnit(t)
    \/ resizeState = Null /\ history = <<>>
            /\ \E id \in DOMAIN elems, n \in SizeCounts : UpdateSoldierCount(id, n)
    \/ resizeState = Null /\ Len(history) < SizeMaxSnapshots
            /\ \E id \in DOMAIN elems : StartResize(id, "se")
    \/ \E d \in SizeResizeDeltas : HandleResize(d[1], d[2])
    \/ EndResize
    \/ resizeState = Null /\ \E id \in DOMAIN elems : CopyShape(id)
    \/ resizeState = Null /\ defaultSpawnSettings = EmptyFn
            /\ \E id \in DOMAIN elems : SetDefaultSpawn(id)
    \/ resizeState = Null /\ Len(history) < SizeMaxSnapshots /\ nextId < SizeMaxCreated
            /\ \E id \in DOMAIN elems : ClickDuplicate(id)
    \/ resizeState = Null /\ Undo
    \/ resizeState = Null /\ Redo

SpecSize == Init /\ [][NextSize]_vars

\* the soldier-count range of each unit type
SizeRange ==
    [light   |-> [min |-> 20, max |-> 400],
     hoplite |-> [min |-> 40, max |-> 800],
     cavalry |-> [min |-> 20, max |-> 200]]

CountOfFootprint(w, h) ==
    LET cols == IF (w + 5) \div 10 < 1 THEN 1 ELSE (w + 5) \div 10
        ranks == IF (h + 5) \div 10 < 1 THEN 1 ELSE (h + 5) \div 10
    IN  cols * ranks

\* C14: a resize gesture that ends on a footprint standing for a soldier count
\* outside the range of the unit's type leaves the unit's soldierCount, formation,
\* cost and position as they were, and an error message is shown
C14_RefusedResizeChangesNothing ==
    [][ (op'.name = "endResize" /\ HasUnit(units, resizeState.unitId))
        => LET id == resizeState.unitId
               unit == FindUnit(units, id)
               st == GStyle(resizeState, elems)
               count == CountOfFootprint(st.width, st.height)
           IN  (count < SizeRange[unit.type].min \/ count > SizeRange[unit.type].max)
               => /\ HasUnit(units', id)
                  /\ FindUnit(units', id).soldierCount = unit.soldierCount
                  /\ FindUnit(units', id).formation = unit.formation
                  /\ FindUnit(units', id).cost = unit.cost
                  /\ FindUnit(units', id).position = unit.position
                  /\ units' = units
                  /\ alerts' = 1 ]_vars

\* a resize gesture ended on a footprint its unit type does not allow: it was refused
\* with an alert, and the wrapper shows the unit's own size again
C14_Witness ==
    /\ op.name = "endResize"
    /\ ~op.ok
    /\ alerts = 1
    /\ resizeState = Null
    /\ \A id \in DOMAIN elems : HasUnit(units, id) /\ elems[id] = RenderStyle(FindUnit(units, id))

----------------------------------------------------------------------------
(* The army under every command of the editor: create, drag, resize,        *)
(* duplicate, copy shape, align, delete, undo and redo.                     *)

\* units created or duplicated, and snapshots held, in this specification
ArmyMaxCreated == 2
ArmyMaxSnapshots == 2

ArmyTypes == {"light", "hoplite"}
ArmyDragTargets == {<<230, 180>>}
ArmyResizeDeltas == {<<30, 20>>}

\* no gesture is in progress
Idle == dragState = Null /\ resizeState = Null

NextArmy ==
    \/ Idle /\ nextId < ArmyMaxCreated /\ \E t \in ArmyTypes : CreateUnit(t)
    \/ Idle /\ Len(history) < ArmyMaxSnapshots /\ \E id \in DOMAIN elems : StartDrag(id)
    \/ \E p \in ArmyDragTargets : HandleDrag(p[1], p[2])
    \/ EndDrag
    \/ Idle /\ Len(history) < ArmyMaxSnapshots
            /\ \E id \in DOMAIN elems : StartResize(id, "se")
    \/ \E d \in ArmyResizeDeltas : HandleResize(d[1], d[2])
    \/ EndResize
    \/ Idle /\ Len(history) < ArmyMaxSnapshots /\ nextId < ArmyMaxCreated /\ KeyDuplicate
    \/ Idle /\ \E id \in DOMAIN elems : CopyShape(id)
    \/ Idle /\ OnCanvas /\ \E id \in DOMAIN elems : AlignRight(id)
    \/ Idle /\ Len(history) < ArmyMaxSnapshots /\ KeyDelete
    \/ Idle /\ Undo
    \/ Idle /\ Redo

SpecArmy == Init /\ [][NextArmy]_vars

\* C6: from the empty army on, no two units of the army have overlapping footprints
C6_NoTwoUnitsOverlap ==
    \A i, j \in 1..Len(units) :
        i < j => ~RectsShareArea(Footprint(units[i], units[i].position),
                                 Footprint(units[j], units[j].position))

\* the cost of one soldier of each unit type
CostPerSoldier == [light |-> 1, hoplite |-> 2, cavalry |-> 4]

\* C9: every unit's cost is its soldierCount times the cost per soldier of its type
C9_CostIsCountTimesRate ==
    \A i \in 1..Len(units) :
        units[i].cost = units[i].soldierCount * CostPerSoldier[units[i].type]

RECURSIVE SumOf(_)
\* the sum of a sequence of numbers
SumOf(costs) == IF costs = <<>> THEN 0 ELSE Head(costs) + SumOf(Tail(costs))

\* C10: usedPoints is a number, every cost is a number, and usedPoints is the sum
\* of the costs of the units of the army
C10_PointsAreSumOfCosts ==
    /\ usedPoints \notin {NaN, JsonNull}
    /\ \A i \in 1..Len(units) : units[i].cost \notin {NaN, JsonNull}
    /\ usedPoints = SumOf([i \in 1..Len(units) |-> units[i].cost])

----------------------------------------------------------------------------
(* The army at its unit limit: cavalry units are added until createUnit     *)
(* refuses, and units are duplicated, deleted, undone and redone on the way.*)

\* ids handed out, and snapshots held, in this specification
LimitMaxIds == 42
LimitMaxSnapshots == 2

\* duplicate, delete, undo and redo are tried within this many units of the limit
LimitWindow == 1

NearLimit == Len(units) >= ARMY_LIMITS.maxUnits - LimitWindow

NextLimit ==
    \/ (nextId < LimitMaxIds \/ Len(units) >= ARMY_LIMITS.maxUnits) /\ CreateUnit("cavalry")
    \/ NearLimit /\ Len(history) < LimitMaxSnapshots /\ nextId < LimitMaxIds
            /\ \E id \in DOMAIN elems \cap {1} : ClickDuplicate(id)
    \/ NearLimit /\ Len(history) < LimitMaxSnapshots /\ KeyDelete
    \/ NearLimit /\ Undo
    \/ NearLimit /\ Redo
    \/ NearLimit /\ MouseDownCanvas

SpecLimit == Init /\ [][NextLimit]_vars

\* C11: createUnit on an army of 40 or more units answers success: false with an
\* error, and leaves the unit list, usedPoints and the stored configuration alone
C11_CreateAtLimitFails ==
    [][ (op'.name = "createUnit" /\ Len(units) >= 40)
        => /\ ~op'.ok
           /\ op'.error # ""
           /\ units' = units
           /\ usedPoints' = usedPoints
           /\ stored' = stored ]_vars

\* createUnit was refused on an army of exactly 40 units that had been stored
C11_Witness ==
    /\ op.name = "createUnit"
    /\ ~op.ok
    /\ Len(units) = 40
    /\ stored # Null

\* C12: the army never holds more than 40 units
C12_AtMostFortyUnits == Len(units) <= 40

----------------------------------------------------------------------------
(* Character assignment: the panel is opened on a unit, characters are      *)
(* assigned and removed with its buttons, units are duplicated, and         *)
(* Ctrl+Z / Ctrl+Y move through the history.                                *)

\* snapshots held in this specification, which creates a single unit
CharMaxSnapshots == 3

\* nothing to redo and room for one more snapshot: assignments and removals are
\* tried only then
CharRoom == historyIndex = Len(history) - 1 /\ Len(history) < CharMaxSnapshots

NextChar ==
    \/ nextId = 0 /\ CreateUnit("cavalry")
    \/ \E id \in DOMAIN elems : ShowCharacterPanel(id)
    \/ CharRoom /\ \E c \in availableCharacters, role \in {"general", "soldier"}, answer \in BOOLEAN :
                        AssignCharacter(c, role, answer)
    \/ CharRoom /\ \E c \in availableCharacters, role \in {"general", "soldier"} :
                        RemoveCharacter(role, c)
    \/ Undo
    \/ Redo
    \/ ClosePanel

SpecChar == Init /\ [][NextChar]_vars

\* The references to character c in the army, each slot counted: <<i, 0>> is the
\* general of unit i, <<i, k>> its k-th soldier
References(us, c) ==
    UNION {{<<i, k>> : k \in {n \in 0..Len(us[i].soldiers) :
                                \/ n = 0 /\ us[i].general = <<c>>
                                \/ n > 0 /\ us[i].soldiers[n] = c}} : i \in 1..Len(us)}

\* C15: a character id is referenced, as general or as soldier, by at most one
\* unit of the two armies together, and at most once within that unit
C15_CharacterReferencedOnce ==
    \A c \in availableCharacters :
        Cardinality(References(units, c)) + (IF c \in otherArmy THEN 1 ELSE 0) <= 1

\* C17: a unit's general slot holds at most one reference; a general button
\* pressed for a unit that has a general replaces the general only after
\* confirm() was shown and accepted, and a declined confirm() leaves the unit's
\* general and soldiers as they were
C17_GeneralReplacedOnConfirm ==
    [][ /\ \A i \in 1..Len(units') : Len(units'[i].general) <= 1
        /\ (op'.name = "assignCharacter" /\ op'.role = "general" /\ HasUnit(units, panel.unitId))
           => LET before == FindUnit(units, panel.unitId)
                  after == FindUnit(units', panel.unitId)
              IN  /\ HasUnit(units', panel.unitId)
                  /\ (before.general # <<>> /\ after.general # before.general)
                        => op'.asked /\ op'.answer
                  /\ (before.general # <<>> /\ ~op'.answer)
                        => /\ op'.asked
                           /\ after.general = before.general
                           /\ after.soldiers = before.soldiers
                           /\ units' = units ]_vars

\* confirm() was shown for a unit that has a general and was declined: the unit
\* still has its general
C17_Witness ==
    /\ op.name = "assignCharacter"
    /\ op.role = "general"
    /\ op.asked
    /\ ~op.answer
    /\ HasUnit(units, panel.unitId)
    /\ FindUnit(units, panel.unitId).general # <<>>

----------------------------------------------------------------------------
(* The list of available characters: two units, the other player's army,    *)
(* assignments and removals through the panel of either unit.               *)

\* units created, and snapshots held, in this specification
RosterMaxCreated == 2
RosterMaxSnapshots == 2

\* what the other player's army references when the page is opened
OtherArmies == {{}, {"c"}}

\* The page opened on a stored configuration in which this player's army is
\* still empty and the other player's army may already reference characters
InitRoster ==
    /\ units = <<>>
    /\ usedPoints = 0
    /\ nextId = 0
    /\ history = <<>>
    /\ historyIndex = 0 - 1
    /\ restored = NoShare
    /\ selectedUnit = 0
    /\ dragState = Null
    /\ resizeState = Null
    /\ elems = EmptyFn
    /\ defaultSpawnSettings = EmptyFn
    /\ alerts = 0
    /\ op = [name |-> "init", ok |-> TRUE]
    /\ track = NoTrack
    /\ log = <<>>
    /\ stored = save(<<>>, 0)
    /\ panel = NoPanel
    /\ otherArmy \in OtherArmies

\* nothing to redo and room for one more snapshot
RosterRoom == historyIndex = Len(history) - 1 /\ Len(history) < RosterMaxSnapshots

NextRoster ==
    \/ nextId < RosterMaxCreated /\ history = <<>> /\ CreateUnit("cavalry")
    \/ \E id \in DOMAIN elems : ShowCharacterPanel(id)
    \/ RosterRoom /\ \E c \in availableCharacters, role \in {"general", "soldier"} :
                        AssignCharacter(c, role, TRUE)
    \/ RosterRoom /\ \E c \in availableCharacters, role \in {"general", "soldier"} :
                        RemoveCharacter(role, c)
    \/ Undo
    \/ Redo
    \/ KeyEscape

SpecRoster == InitRoster /\ [][NextRoster]_vars

\* The character ids some unit of either army references
Referenced(us, other) == {c \in availableCharacters : References(us, c) # {}} \cup other

\* C16: whenever the list of available characters is computed (the panel is
\* opened on a unit, a character is assigned, a character is removed), it holds no
\* character that a unit of either army references; and after every assignment
\* and every removal it is the roster less the characters referenced then
C16_AvailableExcludesReferenced ==
    [][ /\ (op'.name \in {"showPanel", "assignCharacter", "removeCharacter"} /\ op'.ok)
           => panel'.listed \cap Referenced(units', otherArmy') = {}
        /\ (op'.name \in {"assignCharacter", "removeCharacter"} /\ op'.ok)
           => panel'.listed = availableCharacters \ Referenced(units', otherArmy') ]_vars

\* a character was assigned to one unit through its panel while the other player's
\* army references another: neither is listed, and a second unit exists to list for
C16_Witness ==
    /\ op.name = "assignCharacter"
    /\ op.ok
    /\ otherArmy # {}
    /\ Len(units) = 2
    /\ Referenced(units, {}) # {}
    /\ panel.listed = {}

(***************************************************************************)
(* Keyboard commands during a gesture.  The keydown listener is on the      *)
(* document and runs whatever the pointer is doing; these are read under    *)
(* Spec, where Escape, Ctrl+D, Ctrl+Z and Ctrl+Y can arrive between the     *)
(* pointer-down and the pointer-up of a drag.                               *)
(***************************************************************************)

\* a drag or a resize is in progress
InGesture == dragState # Null \/ resizeState # Null

\* C18: Escape pressed during a drag or a resize clears dragState and resizeState,
\* puts the unit's element back where the army has the unit, and commits nothing
C18_EscapeCancelsGesture ==
    [][ (op'.name = "escape" /\ InGesture)
        => /\ dragState' = Null
           /\ resizeState' = Null
           /\ units' = units
           /\ usedPoints' = usedPoints
           /\ \A id \in DOMAIN elems' :
                HasUnit(units', id) =>
                    /\ elems'[id].left = FindUnit(units', id).position.x
                    /\ elems'[id].top = FindUnit(units', id).position.y ]_vars

\* what the pointer and the keyboard can do between pointer-down and pointer-up
GestureTimeCommands == {"handleDrag", "handleResize", "delete", "duplicate", "undo", "redo"}

\* C19: between the pointer-down and the pointer-up of a gesture, no pointer-move and
\* no keyboard command (Delete, Ctrl+D, Ctrl+Z, Ctrl+Y) changes the unit list or the
\* point total
C19_ArmyFixedDuringGesture ==
    [][ (InGesture /\ op'.name \in GestureTimeCommands)
        => units' = units /\ usedPoints' = usedPoints ]_vars

\* C20: duplicateUnit appends exactly one unit, with an id no unit had, no general, no
\* soldiers, the source's name with ' (Copy)' appended, and the source's type,
\* soldierCount, formation and cost; the units there before are unchanged
C20_DuplicateCopiesFields ==
    [][ op'.name = "duplicate"
        => /\ Len(units') = Len(units) + 1
           /\ SubSeq(units', 1, Len(units)) = units
           /\ LET newUnit == units'[Len(units')] IN
                /\ \A i \in 1..Len(units) : units[i].id # newUnit.id
                /\ newUnit.general = <<>>
                /\ newUnit.soldiers = <<>>
                /\ \E i \in 1..Len(units) :
                     /\ newUnit.name = [units[i].name EXCEPT !.copies = @ + 1]
                     /\ newUnit.type = units[i].type
                     /\ newUnit.soldierCount = units[i].soldierCount
                     /\ newUnit.formation = units[i].formation
                     /\ newUnit.cost = units[i].cost ]_vars

----------------------------------------------------------------------------
(* Duplicates: units of every type are created and duplicated, by Ctrl+D    *)
(* and by the duplicate button, with undo and redo in between.              *)

\* unit ids handed out in this specification
DupMaxIds == 3

NextDup ==
    \/ nextId < DupMaxIds /\ \E t \in Types : CreateUnit(t)
    \/ nextId < DupMaxIds /\ \E id \in DOMAIN elems : ClickDuplicate(id)
    \/ nextId < DupMaxIds /\ KeyDuplicate
    \/ Undo
    \/ Redo

SpecDup == Init /\ [][NextDup]_vars

\* C21: the position duplicateUnit picks (right, else left, else below, else the
\* diagonal offset) is one where the copy's footprint shares no area with the
\* footprint of any unit the army already had, the source included
C21_DuplicateSlotIsFree ==
    [][ op'.name = "duplicate"
        => LET newUnit == units'[Len(units')] IN
             \A j \in 1..Len(units) :
                ~RectsShareArea(Footprint(newUnit, newUnit.position),
                                Footprint(units[j], units[j].position)) ]_vars

----------------------------------------------------------------------------
(* ArmyBuilder's commands called by themselves: createUnit with known and   *)
(* unknown types, updateUnit with several sets of fields and removeUnit,    *)
(* for ids the army has and ids it does not have.                           *)

\* units created in this specification
BuilderMaxCreated == 2

\* the types asked for; UNIT_TYPES has no archer
BuilderTypes == {"hoplite", "cavalry", "archer"}

\* the ids asked for: the units created, and one id no unit ever has
BuilderIds == 1..(BuilderMaxCreated + 1)

\* the fields handed to updateUnit: a soldier count alone (250: within the hoplite's
\* range, above the cavalry's), a soldier count below every range together with every
\* other field, a soldier count with its formation, and fields without a soldier count
BuilderUpdates ==
    { [soldierCount |-> 250],
      [soldierCount |-> 10, formation |-> [width |-> 5, depth |-> 2],
       position |-> [x |-> 0, y |-> 0], name |-> [base |-> "custom", n |-> 1, copies |-> 0],
       general |-> <<"a">>, soldiers |-> <<"c">>],
      [soldierCount |-> 100, formation |-> [width |-> 10, depth |-> 10]],
      [position |-> [x |-> 10, y |-> 200]] }

NextBuilder ==
    \/ nextId < BuilderMaxCreated /\ \E t \in BuilderTypes : CreateUnit(t)
    \/ \E id \in BuilderIds, updates \in BuilderUpdates : UpdateUnit(id, updates)
    \/ \E id \in BuilderIds : RemoveUnit(id)

SpecBuilder == Init /\ [][NextBuilder]_vars

\* C22: updateUnit and removeUnit called with an id the army does not have return a
\* failure result with an error, raise nothing, and leave the unit list, the point
\* total and the stored configuration as they were
C22_AbsentIdFailsQuietly ==
    [][ (op'.name \in {"callUpdateUnit", "callRemoveUnit"} /\ ~HasUnit(units, op'.id))
        => /\ ~op'.ok
           /\ ~op'.thrown
           /\ op'.error = "Unit not found"
           /\ units' = units
           /\ usedPoints' = usedPoints
           /\ stored' = stored ]_vars

\* removeUnit was called for unit 1 after unit 1 had been removed, unit 2 still there
C22_Witness ==
    /\ op.name = "callRemoveUnit"
    /\ op.id = 1
    /\ ~op.ok
    /\ UnitIds(units) = {2}
    /\ stored # Null

\* C23: updateUnit with a soldierCount outside the unit type's [minSize, maxSize] fails
\* with the validation error and leaves the unit, with every field supplied, as it
\* was; with a soldierCount inside the range the unit gets that count, the cost of that
\* count and, when no formation is supplied, the formation derived from count and type
C23_UpdateValidatesCount ==
    [][ (/\ op'.name = "callUpdateUnit"
         /\ HasUnit(units, op'.id)
         /\ "soldierCount" \in DOMAIN op'.updates)
        => LET unit == FindUnit(units, op'.id)
               n == op'.updates.soldierCount
               inRange == UNIT_TYPES[unit.type].minSize <= n /\ n <= UNIT_TYPES[unit.type].maxSize
           IN  /\ ~inRange => /\ ~op'.ok
                              /\ op'.error \in {"must have at least", "cannot exceed"}
                              /\ units' = units
                              /\ usedPoints' = usedPoints
                              /\ stored' = stored
               /\ inRange => /\ op'.ok
                             /\ HasUnit(units', op'.id)
                             /\ LET after == FindUnit(units', op'.id) IN
                                  /\ after.soldierCount = n
                                  /\ after.cost = n * UNIT_TYPES[unit.type].cost
                                  /\ after.formation =
                                       IF "formation" \in DOMAIN op'.updates
                                       THEN op'.updates.formation
                                       ELSE calculateFormationFromSoldiers(n, unit.type) ]_vars

\* a cavalry unit was asked to hold 250 soldiers and refused, after a hoplite unit had
\* taken 250 with the formation derived for it
C23_Witness ==
    /\ op.name = "callUpdateUnit"
    /\ ~op.ok
    /\ op.error = "cannot exceed"
    /\ HasUnit(units, op.id)
    /\ FindUnit(units, op.id).type = "cavalry"
    /\ \E i \in 1..Len(units) :
         /\ units[i].type = "hoplite"
         /\ units[i].soldierCount = 250
         /\ units[i].formation = calculateFormationFromSoldiers(250, "hoplite")

\* C24: createUnit with a type that is none of light, hoplite and cavalry returns a
\* failure result with an error and raises nothing; the army is unchanged
C24_UnknownTypeFailsQuietly ==
    [][ (op'.name = "createUnit" /\ op'.type \notin {"light", "hoplite", "cavalry"})
        => /\ ~op'.ok
           /\ ~op'.thrown
           /\ units' = units
           /\ usedPoints' = usedPoints ]_vars

----------------------------------------------------------------------------
(* Snapshots and saves around the commands, read under SpecArmy, SpecHist   *)
(* and SpecChar.                                                            *)

\* C25: a command that changes the army while no gesture is in progress (undo and redo
\* aside) leaves, as the latest snapshot of the history, the army as it was just
\* before the command
C25_SnapshotBeforeMutation ==
    [][ (/\ Idle
         /\ op'.name \notin {"undo", "redo"}
         /\ (units' # units \/ usedPoints' # usedPoints))
        => /\ history' # <<>>
           /\ history'[Len(history')] = Snapshot(units, usedPoints) ]_vars

\* C26: saveHistory() called with historyIndex before the last snapshot keeps the
\* snapshots up to the index, drops the ones after it and appends the new one, so
\* that historyIndex is the last index; a redo() that follows changes nothing
C26_SaveDropsRedoBranch ==
    [][ /\ (log' = Append(log, Pushed) /\ historyIndex < Len(history) - 1)
            => /\ history' = Append(SubSeq(history, 1, historyIndex + 1),
                                    Snapshot(units, usedPoints))
               /\ historyIndex' = Len(history') - 1
        /\ (log # <<>> /\ op'.name = "redo")
            => /\ ~op'.ok
               /\ UNCHANGED <<units, usedPoints, history, historyIndex>> ]_vars

\* redo() was pressed and did nothing after a rename that followed an undo: the
\* renamed-back snapshot that redo would have restored is gone, and the history holds
\* the snapshot undo went back to and an equal one pushed by the rename
C26_Witness ==
    /\ op.name = "redo"
    /\ ~op.ok
    /\ Len(log) = 1
    /\ Len(history) = 2
    /\ history[1] = history[2]
    /\ historyIndex = 1

\* C27: once a command that changed the unit list or the point total has completed,
\* the stored configuration holds the army's unit list and point total as they are
\* in memory (as save() writes them)
C27_SavedAfterMutation ==
    [][ (units' # units \/ usedPoints' # usedPoints)
        => stored' = save(units', usedPoints') ]_vars

----------------------------------------------------------------------------
(* The previews of a resize and of a drag, read under SpecGesture.          *)

\* C28: in every pointer-move of a resize the edges opposite the grabbed corner stay
\* where they were at the pointer-down: left and top for se, right and top for sw,
\* left and bottom for ne, right and bottom for nw
C28_OppositeEdgeFixed ==
    [][ op'.name = "handleResize"
        => LET rs == resizeState
               st == GStyle(resizeState', elems')
           IN  /\ rs.corner \in {"se", "ne"} => st.left = rs.originalLeft
               /\ rs.corner \in {"sw", "nw"}
                    => st.left + st.width = rs.originalLeft + rs.originalWidth
               /\ rs.corner \in {"se", "sw"} => st.top = rs.originalTop
               /\ rs.corner \in {"ne", "nw"}
                    => st.top + st.height = rs.originalTop + rs.originalHeight ]_vars

----------------------------------------------------------------------------
(* Drag previews at the canvas edges: units on the spawn grid, and pointer   *)
(* positions beyond the canvas, at its edges and on top of another unit.    *)

\* units created and drags started in this specification
PreviewMaxCreated == 3
PreviewMaxDrags == 1

PreviewTypes == {"hoplite", "light"}

\* where the pointer takes the wrapper's corner: left of and below the canvas, right of
\* and above it, onto the first unit's place, and to a free place inside
PreviewDragTargets == {<<0 - 20, 500>>, <<390, 0 - 10>>, <<60, 60>>, <<220, 175>>}

NextPreview ==
    \/ nextId < PreviewMaxCreated /\ \E t \in PreviewTypes : CreateUnit(t)
    \/ Len(history) < PreviewMaxDrags /\ dragState = Null
            /\ \E id \in DOMAIN elems : StartDrag(id)
    \/ \E p \in PreviewDragTargets : HandleDrag(p[1], p[2])
    \/ EndDrag

SpecPreview == Init /\ [][NextPreview]_vars

\* C29: every preview position of a drag is the pointer's candidate clamped to
\* 0 <= x <= canvas width - footprint width and 0 <= y <= canvas height - footprint
\* height, whether or not the placement is valid there, and a position that a drag
\* commits lies within the same limits
C29_PreviewWithinCanvas ==
    [][ (op'.name \in {"handleDrag", "endDrag"} /\ HasUnit(units, dragState.unitId))
        => LET id == dragState.unitId
               size == getUnitVisualSize(FindUnit(units, id).formation)
               maxX == CanvasWidth - size.width
               maxY == CanvasHeight - size.height
           IN  (maxX >= 0 /\ maxY >= 0)
               => /\ op'.name = "handleDrag"
                     => /\ elems'[id].left = Max(0, Min(op'.x, maxX))
                        /\ elems'[id].top = Max(0, Min(op'.y, maxY))
                        /\ 0 <= elems'[id].left /\ elems'[id].left <= maxX
                        /\ 0 <= elems'[id].top /\ elems'[id].top <= maxY
                  /\ (op'.name = "endDrag" /\ op'.ok)
                     => LET pos == FindUnit(units', id).position IN
                          /\ 0 <= pos.x /\ pos.x <= maxX
                          /\ 0 <= pos.y /\ pos.y <= maxY ]_vars

----------------------------------------------------------------------------
(* Copy-shape-to-all-of-type, read under SpecSize.                          *)

\* C30: copyShapeToAllOfType gives every other unit of the source's type the source's
\* soldierCount, formation and cost, and changes nothing else: not the source, not a
\* unit of another type, and no unit's id, position, name, general or soldiers
C30_CopyShapeFrame ==
    [][ op'.name = "copyShape"
        => LET source == FindUnit(units, op'.id) IN
             /\ Len(units') = Len(units)
             /\ \A i \in 1..Len(units) :
                  IF units[i].type = source.type /\ units[i].id # source.id
                  THEN units'[i] = [units[i] EXCEPT !.soldierCount = source.soldierCount,
                                                    !.formation = source.formation,
                                                    !.cost = source.cost]
                  ELSE units'[i] = units[i] ]_vars

----------------------------------------------------------------------------
(* Align-to-right: up to three units of two types on the spawn grid, one    *)
(* drag, and the align button of any unit.                                  *)

\* units created and drags started in this specification
AlignMaxCreated == 3
AlignMaxDrags == 1

AlignTypes == {"hoplite", "cavalry"}

\* where a drag takes a unit: into the row the aligned units are put in, and below it
AlignDragTargets == {<<180, 50>>, <<50, 180>>}

NextAlign ==
    \/ nextId < AlignMaxCreated /\ dragState = Null /\ \E t \in AlignTypes : CreateUnit(t)
    \/ Len(history) < AlignMaxDrags /\ dragState = Null
            /\ \E id \in DOMAIN elems : StartDrag(id)
    \/ \E p \in AlignDragTargets : HandleDrag(p[1], p[2])
    \/ EndDrag
    \/ OnCanvas /\ dragState = Null /\ \E id \in DOMAIN elems : AlignRight(id)

SpecAlign == Init /\ [][NextAlign]_vars

\* The army in the middle of an align: the units before index i as they are after the
\* command (vs), the others as they were before it (us)
AlignMid(us, vs, i) == [j \in 1..Len(us) |-> IF j < i THEN vs[j] ELSE us[j]]

\* unit i is one that an align from source may move
AlignTarget(us, source, i) == us[i].type = source.type /\ us[i].id # source.id

RECURSIVE AlignOfferX(_, _, _, _)
\* The x offered to index i: the source's right edge plus 20, plus the width plus 20 of
\* every unit before i that the align placed
AlignOfferX(us, vs, source, i) ==
    IF i = 1 THEN source.position.x + getUnitVisualSize(source.formation).width + 20
    ELSE LET x == AlignOfferX(us, vs, source, i - 1)
             placed == /\ AlignTarget(us, source, i - 1)
                       /\ ~MeetsAnother(AlignMid(us, vs, i - 1), us[i - 1].id,
                                        [x |-> x, y |-> source.position.y])
         IN  IF placed THEN x + getUnitVisualSize(us[i - 1].formation).width + 20 ELSE x

\* C31: alignUnitsToRight offers each other unit of the source's type, in army order,
\* the place at the source's y and at x = source.x + source width + 20, advanced by
\* width + 20 of every unit placed so far; a unit whose footprint there would meet
\* another unit's is skipped and keeps its position, otherwise it is moved there and
\* nothing else of it changes. The source and the units of other types are unchanged,
\* and no two units share area afterwards that did not before
C31_AlignPlacesInOrder ==
    [][ op'.name = "alignRight"
        => LET source == FindUnit(units, op'.id) IN
             /\ Len(units') = Len(units)
             /\ \A i \in 1..Len(units) :
                  LET offer == [x |-> AlignOfferX(units, units', source, i),
                                y |-> source.position.y]
                  IN  IF /\ AlignTarget(units, source, i)
                         /\ ~MeetsAnother(AlignMid(units, units', i), units[i].id, offer)
                      THEN units'[i] = [units[i] EXCEPT !.position = offer]
                      ELSE units'[i] = units[i]
             /\ \A i, j \in 1..Len(units) :
                  (/\ i # j
                   /\ RectsShareArea(Footprint(units'[i], units'[i].position),
                                     Footprint(units'[j], units'[j].position)))
                  => RectsShareArea(Footprint(units[i], units[i].position),
                                    Footprint(units[j], units[j].position)) ]_vars

\* three hoplites, aligned from the second: the first was offered x = 320, where it
\* would have met the third (at 350), and kept its place; the third was then offered
\* the same x and moved there
C31_Witness ==
    /\ op.name = "alignRight"
    /\ op.id = 2
    /\ Len(units) = 3
    /\ \A i \in 1..3 : units[i].type = "hoplite" /\ units[i].id = i
    /\ units[1].position = [x |-> 50, y |-> 50]
    /\ units[2].position = [x |-> 200, y |-> 50]
    /\ units[3].position = [x |-> 320, y |-> 50]

\* C32: the star button on unit U records U's soldierCount and formation as the
\* template of U's type and leaves the templates of the other types alone; no other
\* command changes a template, whatever it does to U afterwards; and every createUnit
\* that adds a unit gives it the soldierCount and formation of its type's template,
\* or the type's defaults when the type has none (a default hoplite: 120 soldiers,
\* cost 240), and cost = soldierCount * cost per soldier of the type
C32_SpawnTemplate ==
    [][ /\ op'.name = "setDefault"
            => LET U == FindUnit(units, op'.id) IN
                 /\ U.type \in DOMAIN defaultSpawnSettings'
                 /\ defaultSpawnSettings'[U.type].soldierCount = U.soldierCount
                 /\ defaultSpawnSettings'[U.type].formation = U.formation
                 /\ \A t \in Types \ {U.type} :
                      IF t \in DOMAIN defaultSpawnSettings
                      THEN t \in DOMAIN defaultSpawnSettings'
                           /\ defaultSpawnSettings'[t] = defaultSpawnSettings[t]
                      ELSE t \notin DOMAIN defaultSpawnSettings'
        /\ op'.name # "setDefault" => defaultSpawnSettings' = defaultSpawnSettings
        /\ (op'.name = "createUnit" /\ op'.ok)
            => LET new == units'[Len(units')]
                   rate == IF new.type = "light" THEN 1 ELSE IF new.type = "hoplite" THEN 2 ELSE 4
               IN  /\ Len(units') = Len(units) + 1
                   /\ new.type = op'.type
                   /\ IF new.type \in DOMAIN defaultSpawnSettings
                      THEN /\ new.soldierCount = defaultSpawnSettings[new.type].soldierCount
                           /\ new.formation = defaultSpawnSettings[new.type].formation
                      ELSE /\ new.soldierCount = UNIT_TYPES[new.type].defaultSize
                           /\ new.formation = UNIT_TYPES[new.type].defaultFormation
                           /\ new.type = "hoplite" => new.soldierCount = 120 /\ new.cost = 240
                   /\ new.cost = new.soldierCount * rate ]_vars

\* a hoplite set to 250 soldiers was starred and then resized to something else; the
\* hoplite created after that has the 250 soldiers and the formation of the template
\* and costs 500
C32_Witness ==
    /\ op.name = "createUnit"
    /\ op.ok
    /\ Len(units) = 2
    /\ units[1].type = "hoplite"
    /\ units[1].soldierCount # 250
    /\ "hoplite" \in DOMAIN defaultSpawnSettings
    /\ defaultSpawnSettings["hoplite"].soldierCount = 250
    /\ units[2].type = "hoplite"
    /\ units[2].soldierCount = 250
    /\ units[2].formation = defaultSpawnSettings["hoplite"].formation
    /\ units[2].formation # units[1].formation
    /\ units[2].cost = 500

(* ArmyBuilder.updateUnit called with fields of the caller's choice, cost and *)
(* type among them, on an army of up to two units.                            *)
FieldsMaxCreated == 2
FieldsTypes == {"hoplite", "cavalry"}
FieldsIds == 1..FieldsMaxCreated

\* update objects handed to updateUnit
FieldsUpdates ==
    { [cost |-> 7],
      [type |-> "cavalry"],
      [soldierCount |-> 100],
      [soldierCount |-> 100, cost |-> 7],
      [position |-> [x |-> 10, y |-> 200]],
      [name |-> [base |-> "custom", n |-> 1, copies |-> 0], cost |-> 7] }

NextFields ==
    \/ nextId < FieldsMaxCreated /\ \E t \in FieldsTypes : CreateUnit(t)
    \/ \E id \in FieldsIds, updates \in FieldsUpdates : UpdateUnit(id, updates)
    \/ \E id \in FieldsIds : RemoveUnit(id)

SpecFields == Init /\ [][NextFields]_vars

\* C33: an updateUnit whose fields hold no soldierCount changes neither the cost nor
\* the type of the unit, whatever else the fields hold
C33_CostNotSettable ==
    [][ (/\ op'.name = "callUpdateUnit"
         /\ HasUnit(units, op'.id)
         /\ "soldierCount" \notin DOMAIN op'.updates)
        => /\ HasUnit(units', op'.id)
           /\ FindUnit(units', op'.id).cost = FindUnit(units, op'.id).cost
           /\ FindUnit(units', op'.id).type = FindUnit(units, op'.id).type ]_vars

(* Loading the persisted configuration: the page is loaded again over what   *)
(* localStorage holds, which the session itself or anything else may have    *)
(* written.                                                                   *)
LoadMaxCreated == 3
LoadTypes == {"hoplite", "cavalry"}

\* items of localStorage['battleConfig'] that no save() of this program wrote: a text
\* that is not JSON, the text "null", and a JSON object without an armies list
Unparseable == [text |-> "{oops"]
NullText == [text |-> "null"]
NoArmies == [name |-> "Unnamed Battle"]
LoadForeignItems == {Unparseable, NullText, NoArmies}

\* BattleConfigService.createNew: the armies of a new configuration
createNew ==
    [armies |-> <<[playerId |-> 0, maxPoints |-> 1000, usedPoints |-> 0, units |-> <<>>],
                  [playerId |-> 1, maxPoints |-> 1000, usedPoints |-> 0, units |-> <<>>]>>]

\* JSON.parse of an item: a saved configuration gives this player's army as saved
\* and the other army as createNew made it; any other JSON text gives its value
\* (Null for the text "null")
JsonParse(item) ==
    IF "units" \in DOMAIN item
    THEN [armies |-> <<[playerId |-> 0, maxPoints |-> 1000,
                        usedPoints |-> item.usedPoints, units |-> item.units],
                       createNew.armies[2]>>]
    ELSE IF item = NullText THEN Null
    ELSE item

\* BattleConfigService.load: what it returned and the config it left
load(item) ==
    IF item = Null \/ item = Unparseable THEN [returned |-> FALSE, config |-> createNew]
    ELSE [returned |-> TRUE, config |-> JsonParse(item)]

\* BattleConfigService.getArmy: throws for a player other than 0 and 1, and (TypeError)
\* for a config that is null or has no armies
getArmy(config, playerId) ==
    IF playerId < 0 \/ playerId > 1 THEN [thrown |-> TRUE, army |-> Null]
    ELSE IF "armies" \notin DOMAIN config THEN [thrown |-> TRUE, army |-> Null]
    ELSE [thrown |-> FALSE, army |-> config.armies[playerId + 1]]

\* The page is loaded: new BattleConfigService() runs load(), new ArmyBuilder(0) takes
\* getArmy(0), the canvas renders its units. When getArmy throws, no army builder
\* exists: the army is shown empty and no army command is enabled until the next load
LoadPage ==
    /\ LET l == load(stored)
           a == getArmy(l.config, 0)
       IN  /\ units' = IF a.thrown THEN <<>> ELSE a.army.units
           /\ usedPoints' = IF a.thrown THEN 0 ELSE a.army.usedPoints
           /\ elems' = IF a.thrown THEN EmptyFn ELSE RenderAll(a.army.units)
           /\ op' = [name |-> "load", ok |-> l.returned, config |-> l.config,
                     thrown |-> a.thrown]
    /\ history' = <<>>
    /\ historyIndex' = 0 - 1
    /\ restored' = NoShare
    /\ selectedUnit' = 0
    /\ dragState' = Null
    /\ resizeState' = Null
    /\ defaultSpawnSettings' = EmptyFn
    /\ alerts' = 0
    /\ track' = NoTrack
    /\ log' = <<>>
    /\ panel' = NoPanel
    /\ UNCHANGED <<nextId, stored, otherArmy>>

\* Something other than save() writes the item
StoreItem(item) ==
    /\ stored' = item
    /\ alerts' = 0
    /\ op' = [name |-> "storeItem", ok |-> TRUE]
    /\ track' = NoTrack
    /\ UNCHANGED <<units, usedPoints, nextId, history, historyIndex, restored, selectedUnit,
                   dragState, resizeState, elems, defaultSpawnSettings, log, panel, otherArmy>>

\* localStorage.removeItem
RemoveItem ==
    /\ stored' = Null
    /\ alerts' = 0
    /\ op' = [name |-> "removeItem", ok |-> TRUE]
    /\ track' = NoTrack
    /\ UNCHANGED <<units, usedPoints, nextId, history, historyIndex, restored, selectedUnit,
                   dragState, resizeState, elems, defaultSpawnSettings, log, panel, otherArmy>>

\* the page has an army builder
PageUp == ~(op.name = "load" /\ op.thrown)

NextLoad ==
    \/ PageUp /\ nextId < LoadMaxCreated /\ \E t \in LoadTypes : CreateUnit(t)
    \/ PageUp /\ \E id \in DOMAIN elems : RemoveUnit(id)
    \/ LoadPage
    \/ \E item \in LoadForeignItems : StoreItem(item)
    \/ RemoveItem

SpecLoad == Init /\ [][NextLoad]_vars

\* C34: a load over an item that is absent, is not JSON, or is JSON but no battle
\* configuration leaves the configuration createNew builds (two armies without units,
\* usedPoints 0, maxPoints 1000), and getArmy(0) and getArmy(1) then return an army
C34_BadItemLoadsFresh ==
    [][ (/\ op'.name = "load"
         /\ stored = Null \/ "units" \notin DOMAIN stored)
        => /\ op'.config = createNew
           /\ \A p \in {0, 1} :
                /\ ~getArmy(op'.config, p).thrown
                /\ getArmy(op'.config, p).army.units = <<>>
                /\ getArmy(op'.config, p).army.usedPoints = 0
                /\ getArmy(op'.config, p).army.maxPoints = 1000
           /\ ~op'.thrown ]_vars

\* C35: in every state the history holds at most 50 snapshots, historyIndex lies
\* between -1 and the last index of the history, and is -1 only while the history is
\* empty; and right after every saveHistory() historyIndex is the last index
C35_HistoryIndexInRange ==
    /\ [](/\ Len(history) <= 50
          /\ 0 - 1 <= historyIndex
          /\ historyIndex <= Len(history) - 1
          /\ historyIndex = 0 - 1 => history = <<>>)
    /\ [][ log' = Append(log, Pushed) => historyIndex' = Len(history') - 1 ]_vars

\* the 51st saveHistory() in a row has just pushed onto the full history and shifted
\* the oldest snapshot out: 50 snapshots, index 49
C35_Witness ==
    /\ Len(history) = 50
    /\ historyIndex = 49
    /\ Len(log) = 51
    /\ op.name = "rename"

\* C36: a snapshot in the history never changes: every step leaves the snapshots up
\* to the index as they were, and the snapshots after the index too unless the step
\* is a saveHistory() that cut them off (steps that shift a full history aside)
C36_SnapshotsImmutable ==
    [][ Len(history) < maxHistorySize
        => \A i \in 1..Len(history) :
             (i <= historyIndex + 1 \/ log' = log \/ log' = <<>>)
             => /\ i <= Len(history')
                /\ history'[i] = history[i] ]_vars

(* Pointer events in any order: a pointer-down on a unit body or on a resize *)
(* handle may follow another pointer-down without a pointer-up in between.   *)
PointerMaxSnapshots == 3
PointerTypes == {"hoplite"}
PointerCorners == {"se"}
PointerDragTargets == {<<230, 160>>}
PointerResizeDeltas == {<<30, 20>>}

NextPointer ==
    \/ nextId = 0 /\ \E t \in PointerTypes : CreateUnit(t)
    \/ Len(history) < PointerMaxSnapshots /\ \E id \in DOMAIN elems : StartDrag(id)
    \/ Len(history) < PointerMaxSnapshots /\ resizeState = Null
            /\ \E id \in DOMAIN elems, c \in PointerCorners : StartResize(id, c)
    \/ \E p \in PointerDragTargets : HandleDrag(p[1], p[2])
    \/ \E d \in PointerResizeDeltas : HandleResize(d[1], d[2])
    \/ EndDrag
    \/ EndResize

SpecPointer == Init /\ [][NextPointer]_vars

\* C37: dragState and resizeState are never both set
C37_OneGestureAtATime == ~(dragState # Null /\ resizeState # Null)

\* C38: a pointer-up that follows the pointer-down on a resize handle at once, with no
\* pointer-move in between, leaves the unit's soldierCount, formation, cost and
\* position as they were
C38_StillResizeKeepsUnit ==
    [][ (/\ op.name = "startResize"
         /\ op'.name = "endResize"
         /\ HasUnit(units, resizeState.unitId))
        => /\ HasUnit(units', resizeState.unitId)
           /\ LET before == FindUnit(units, resizeState.unitId)
                  after == FindUnit(units', resizeState.unitId)
              IN  /\ after.soldierCount = before.soldierCount
                  /\ after.formation = before.formation
                  /\ after.cost = before.cost
                  /\ after.position = before.position ]_vars

(* Resizing units made by createUnit, a typed soldier count and earlier      *)
(* resizes only.                                                             *)
StillMaxCreated == 2
StillMaxSnapshots == 2
StillTypes == {"hoplite", "light"}
StillCounts == {250, 100}
StillResizeDeltas == {<<30, 20>>}

NextStill ==
    \/ resizeState = Null /\ nextId < StillMaxCreated /\ \E t \in StillTypes : CreateUnit(t)
    \/ resizeState = Null
            /\ \E id \in DOMAIN elems, n \in StillCounts : UpdateSoldierCount(id, n)
    \/ resizeState = Null /\ Len(history) < StillMaxSnapshots
            /\ \E id \in DOMAIN elems : StartResize(id, "se")
    \/ \E d \in StillResizeDeltas : HandleResize(d[1], d[2])
    \/ EndResize

SpecStill == Init /\ [][NextStill]_vars

\* C39: a command that ends without changing the army leaves the history and its
\* index as they were before it: a general replacement declined at the confirm and a
\* Delete that removed nothing leave both unchanged, and the pointer-up of a drag
\* refused for overlap or of a resize refused for size, whose pointer-down had pushed
\* a snapshot, finds the index back where it was before the pointer-down, on the same
\* snapshots up to there
C39_NoDanglingSnapshot ==
    [][ /\ (op'.name = "assignCharacter" /\ op'.asked /\ ~op'.answer)
            => UNCHANGED <<history, historyIndex>>
        /\ (op'.name = "delete" /\ ~op'.ok)
            => UNCHANGED <<history, historyIndex>>
        /\ (/\ op'.name \in {"endDrag", "endResize"}
            /\ ~op'.ok
            /\ track.phase = "saved"
            /\ Len(history) < maxHistorySize)
            => /\ historyIndex' = historyIndex - 1
               /\ SubSeq(history', 1, historyIndex' + 1) = SubSeq(history, 1, historyIndex) ]_vars

(* The history of UnitEnhancements (unit-canvas-enhancements.js), as         *)
(* operators on the state it shares with the canvas, next to UnitCanvas's.   *)

\* a property that was never assigned
Undefined == [undefined |-> TRUE]

\* The state UnitEnhancements.saveHistory() clones: army.totalPoints, which nothing
\* has assigned
EnhancementsSnapshot(us) == [units |-> JsonClone(us), totalPoints |-> Undefined]

\* The history UnitEnhancements holds after the saveHistory() calls that gave the
\* canvas the history h
EnhancementsHistory(h) ==
    [i \in 1..Len(h) |-> [units |-> h[i].units, totalPoints |-> Undefined]]

\* UnitEnhancements.saveHistory
EnhancementsSaveHistory(h, idx, us) ==
    LET pushed == Append(SubSeq(h, 1, idx + 1), EnhancementsSnapshot(us))
        over == Len(pushed) > maxHistorySize
    IN  [history |-> IF over THEN Tail(pushed) ELSE pushed,
         historyIndex |-> IF over THEN idx ELSE idx + 1]

\* UnitEnhancements.restoreState: the units are the snapshot's, army.totalPoints is
\* set and army.usedPoints is not; armyBuilder.updatePointsDisplay is not a function
\* of ArmyBuilder, so the call throws before selectUnit(null)
EnhancementsRestoreState(state, pts) ==
    [units |-> state.units, usedPoints |-> pts, totalPoints |-> state.totalPoints,
     thrown |-> TRUE]

\* UnitEnhancements.undo and redo over the history h at index idx, the army being us, pts
EnhancementsUndo(h, idx, us, pts) ==
    IF idx > 0
    THEN [historyIndex |-> idx - 1, army |-> EnhancementsRestoreState(h[idx], pts)]
    ELSE [historyIndex |-> idx,
          army |-> [units |-> us, usedPoints |-> pts, totalPoints |-> Undefined,
                    thrown |-> FALSE]]
EnhancementsRedo(h, idx, us, pts) ==
    IF idx < Len(h) - 1
    THEN [historyIndex |-> idx + 1, army |-> EnhancementsRestoreState(h[idx + 2], pts)]
    ELSE [historyIndex |-> idx,
          army |-> [units |-> us, usedPoints |-> pts, totalPoints |-> Undefined,
                    thrown |-> FALSE]]

\* C40: from the same army and corresponding histories, UnitEnhancements and
\* UnitCanvas do the same: a saveHistory() leaves histories of the same length, with
\* the same unit lists, and the same index; an undo() or redo() leaves the same index
\* and an army with the same unit list and the same usedPoints
C40_HistoriesEquivalent ==
    [][ /\ log' = Append(log, Pushed)
            => LET e == EnhancementsSaveHistory(EnhancementsHistory(history), historyIndex,
                                                units)
               IN  /\ Len(e.history) = Len(history')
                   /\ e.historyIndex = historyIndex'
                   /\ \A i \in 1..Len(history') : e.history[i].units = history'[i].units
        /\ op'.name = "undo"
            => LET e == EnhancementsUndo(EnhancementsHistory(history), historyIndex,
                                         units, usedPoints)
               IN  /\ e.historyIndex = historyIndex'
                   /\ e.army.units = units'
                   /\ e.army.usedPoints = usedPoints'
        /\ op'.name = "redo"
            => LET e == EnhancementsRedo(EnhancementsHistory(history), historyIndex,
                                         units, usedPoints)
               IN  /\ e.historyIndex = historyIndex'
                   /\ e.army.units = units'
                   /\ e.army.usedPoints = usedPoints' ]_vars

====
